---------------------------- MODULE Spec2Model ----------------------------
(***************************************************************************)
(* Model of the session / state core of nest-protect-mcp:                  *)
(*   - StateManager   (src/src/nest_protect_mcp/state_manager.py)          *)
(*   - NestProtectMCP (src/src/nest_protect_mcp/server.py): token          *)
(*     lifecycle (_refresh_access_token, access_token, _save_auth_state)   *)
(*     and the request pipeline (_make_request).                           *)
(*                                                                         *)
(* Two specifications share the module:                                    *)
(*   StoreSpec : tasks calling set/update/delete/clear on the StateManager,*)
(*               one step per lock acquisition and per statement of a      *)
(*               critical section, with process crashes and disk errors.   *)
(*   Spec      : tasks calling refresh(), access_token and _make_request   *)
(*               on the server, one step per network suspension point; a   *)
(*               StateManager call made by the server runs to completion   *)
(*               inside the step (its code holds no suspension point when  *)
(*               the lock is free, and no holder suspends).                *)
(***************************************************************************)
EXTENDS Integers, Sequences, FiniteSets, TLC

VARIABLES
    \* ---- StateManager (state_manager.py) ----
    state,          \* StateManager._state: the in-memory map
    initialized,    \* StateManager._initialized
    lock,           \* StateManager._lock: holder task, or NoTask
    disk,           \* the files: state file, its sibling temp file
    spc,            \* position of each store task
    sop,            \* the call each store task is executing
    scur,           \* update(): the local `current`
    nops,           \* calls started so far (bounded by MaxOps)
    \* ---- history of the store (observation only) ----
    written,        \* documents that a save has dumped in full
    interrupted,    \* a save was cut short (crash or disk error) after opening temp
    clean,          \* only update() calls have run since `base` was taken
    base,           \* the map when the current run of update() calls began
    started,        \* update() calls started per key since `base`
    rets,           \* values returned by those update() calls
    overlap,        \* two update() calls on one key were in progress together
    \* ---- NestProtectMCP (server.py) ----
    access_token,       \* self._access_token
    refresh_token,      \* self._refresh_token
    token_expires_at,   \* self._token_expires_at
    session,            \* self._session: "none" or "open"
    now,                \* time.time()
    tk,                 \* per task: the call in progress, its position and what it observed
    ncalls,             \* calls started so far (bounded by MaxCalls)
    fresh,              \* history: the last grant, while nothing has changed since
    \* ---- device cache and command dispatcher ----
    devices,            \* self._devices: device id -> record of its alarm fields
    listeners,          \* the registered event listeners
    delivered,          \* per listener: the events it has received
    cmd,                \* the dispatcher call in progress and what it observed
    \* ---- a caller of the StateManager, one whole call per step ----
    kv,                 \* the caller's objects and maps, and its last calls
    \* ---- the device state mapper ----
    mp,                 \* a call of a mapping function: its input and result
    \* ---- the HTTP session's life cycle ----
    hs,                 \* self._initialized and the requests issued, by session
    \* ---- saving and loading the authentication state ----
    au,                 \* the position of the save/load cycle and what was saved
    \* ---- startup ----
    su,                 \* startup_event: attempts made, their outcomes, the result
    \* ---- the message dispatcher ----
    hm,                 \* handle_message: the messages handled and their answers
    \* ---- the state file against the in-memory map ----
    sy                  \* since initialize(): every mutation persisted, no save failed

svars == <<state, initialized, lock, disk, spc, sop, scur, nops,
           written, interrupted, clean, base, started, rets, overlap>>

nvars == <<access_token, refresh_token, token_expires_at, session, now, tk, ncalls, fresh>>

dvars == <<devices, listeners, delivered, cmd, kv, mp, hs, au, su, hm, sy>>

vars == <<svars, nvars, dvars>>

(* The dispatcher at rest: no device cached, no listener, no call. *)
NoCmd ==
    [pc |-> "idle", op |-> "none", command |-> "none", device_id |-> "None",
     targets |-> <<>>, todo |-> <<>>, net |-> 0, ret |-> "none",
     raised |-> "none", res |-> "none", before |-> <<>>, dl0 |-> <<>>,
     ls0 |-> <<>>, out |-> "none", lerr |-> FALSE, prevfail |-> FALSE]

NoDispatch ==
    /\ devices = <<>>
    /\ listeners = <<>>
    /\ delivered = <<>>
    /\ cmd = NoCmd
    /\ kv = <<>>
    /\ mp = <<>>
    /\ hs = <<>>
    /\ au = <<>>
    /\ su = <<>>
    /\ hm = <<>>
    /\ sy = <<>>

-----------------------------------------------------------------------------
(* Bounds *)
MaxOps == 3

STasks == {"t1", "t2"}
NoTask == "none"
Keys == {"counter", "other"}
SetValues == {0, 5}

(* Files, state_manager.py:22 and :92 *)
state_file == "data/state.json"

temp_file_inplace == state_file

temp_file == "data/state.json.tmp"

Files == {state_file, "data/state.json.tmp"}

(* File contents: absent, a truncated (partially written) text, or one      *)
(* complete JSON document.                                                  *)
Absent == [kind |-> "absent"]
Partial == [kind |-> "partial"]
Complete(d) == [kind |-> "doc", doc |-> d]

EmptyMap == [k \in {} |-> 0]

(* dict.get(key, default) *)
GetDefaultOnly(s, k, d) == d

Get(s, k, d) == IF k \in DOMAIN s THEN s[k] ELSE d

(* self._state[key] = value *)
StateSet(s, k, v) == [x \in (DOMAIN s) \cup {k} |-> IF x = k THEN v ELSE s[x]]

(* del self._state[key] (guarded by `if key in self._state`) *)
StateDel(s, k) == [x \in (DOMAIN s) \ {k} |-> s[x]]

(* The updater of test_concurrent_access: lambda x: (x or 0) + 1 *)
updater(x) == x + 1

(* asyncio.Lock: acquirable only when no task holds it *)
LockFreeAlways == TRUE

LockFree == lock = NoTask

(* os.rename(temp_file, state_file) / os.replace: the destination takes the *)
(* temp file's content in one step, the temp name disappears.               *)
Renamed(d) ==
    IF temp_file = state_file THEN d
    ELSE [d EXCEPT ![state_file] = d[temp_file], ![temp_file] = Absent]

(* cleanup in the except branch: unlink the temp file if it exists *)
Unlinked(d) == [d EXCEPT ![temp_file] = Absent]

NoOp == [op |-> "none", key |-> "counter", val |-> 0, persist |-> TRUE]

InitDocs == {EmptyMap, [k \in {"counter"} |-> 1]}

StoreInit ==
    /\ state = EmptyMap
    /\ initialized = FALSE
    /\ lock = NoTask
    /\ \E f \in {Absent} \cup {Complete(d) : d \in InitDocs} :
          /\ disk = [x \in Files |-> IF x = state_file THEN f ELSE Absent]
          /\ written = IF f.kind = "doc" THEN {f.doc} ELSE {}
    /\ spc = [t \in STasks |-> "idle"]
    /\ sop = [t \in STasks |-> NoOp]
    /\ scur = [t \in STasks |-> 0]
    /\ nops = 0
    /\ interrupted = FALSE
    /\ clean = TRUE
    /\ base = EmptyMap
    /\ started = [k \in Keys |-> 0]
    /\ rets = [k \in Keys |-> {}]
    /\ overlap = FALSE
    /\ NoDispatch
    /\ access_token = "None"
    /\ refresh_token = "None"
    /\ token_expires_at = 0
    /\ session = "none"
    /\ now = 0
    /\ tk = <<>>
    /\ ncalls = 0
    /\ fresh = <<>>

-----------------------------------------------------------------------------
(* StateManager calls, one step per lock acquisition / statement.           *)

AllIdle == \A t \in STasks : spc[t] = "idle"

(* A task calls set / update / delete / clear.  delete and clear always     *)
(* persist; set and update take persist as a parameter.                     *)
StartOp(t) ==
    /\ spc[t] = "idle"
    /\ nops < MaxOps
    /\ \E o \in {"set", "update", "delete", "clear"}, k \in Keys,
          v \in SetValues, p \in BOOLEAN :
          /\ (o \in {"delete", "clear"}) => (p = TRUE /\ v = 0)
          /\ (o = "update") => v = 0
          /\ (o = "set") => v # 0
          /\ (o = "clear") => k = "counter"
          /\ sop' = [sop EXCEPT ![t] = [op |-> o, key |-> k, val |-> v, persist |-> p]]
          /\ IF o = "update"
             THEN /\ started' = [started EXCEPT ![k] = @ + 1]
                  /\ clean' = clean
             ELSE /\ started' = started
                  /\ clean' = FALSE
    /\ spc' = [spc EXCEPT ![t] = "lock"]
    /\ overlap' = (overlap \/ \E u \in STasks \ {t} :
                        /\ spc[u] \in {"lock", "read", "write"}
                        /\ sop[u].op = "update" /\ sop'[t].op = "update"
                        /\ sop[u].key = sop'[t].key)
    /\ nops' = nops + 1
    /\ UNCHANGED <<state, initialized, lock, disk, scur, written, interrupted, base, rets>>

(* async with self._lock (first statement of set/update/delete/clear) *)
AcquireMutate(t) ==
    /\ spc[t] = "lock"
    /\ LockFree
    /\ lock' = t
    /\ spc' = [spc EXCEPT ![t] = IF sop[t].op = "update" THEN "read" ELSE "write"]
    /\ UNCHANGED <<state, initialized, disk, sop, scur, nops,
                   written, interrupted, clean, base, started, rets, overlap>>

(* update(): current = self._state.get(key, default) *)
UpdateRead(t) ==
    /\ spc[t] = "read"
    /\ scur' = [scur EXCEPT ![t] = Get(state, sop[t].key, sop[t].val)]
    /\ spc' = [spc EXCEPT ![t] = "write"]
    /\ UNCHANGED <<state, initialized, lock, disk, sop, nops,
                   written, interrupted, clean, base, started, rets, overlap>>

(* The mutation of the critical section, then the lock is released.         *)
(* update(): updated = updater(current); self._state[key] = updated and     *)
(* `updated` is what the call returns.                                      *)
Mutated(s, o, cur) ==
    CASE o.op = "set"    -> StateSet(s, o.key, o.val)
      [] o.op = "update" -> StateSet(s, o.key, updater(cur))
      [] o.op = "delete" -> StateDel(s, o.key)
      [] OTHER           -> EmptyMap

MutateWrite(t) ==
    /\ spc[t] = "write"
    /\ state' = Mutated(state, sop[t], scur[t])
    /\ lock' = IF lock = t THEN NoTask ELSE lock
    /\ rets' = IF sop[t].op = "update"
               THEN [rets EXCEPT ![sop[t].key] = @ \cup {updater(scur[t])}]
               ELSE rets
    /\ spc' = [spc EXCEPT ![t] = IF sop[t].persist THEN "presave" ELSE "idle"]
    /\ sop' = [sop EXCEPT ![t] = NoOp]
    /\ scur' = [scur EXCEPT ![t] = 0]
    /\ UNCHANGED <<initialized, disk, nops,
                   written, interrupted, clean, base, started, overlap>>

(* _save_state(): returns at once when the manager is not initialized *)
SaveEnter(t) ==
    /\ spc[t] = "presave"
    /\ spc' = [spc EXCEPT ![t] = IF initialized THEN "savelock" ELSE "idle"]
    /\ UNCHANGED <<state, initialized, lock, disk, sop, scur, nops,
                   written, interrupted, clean, base, started, rets, overlap>>

(* _save_state(): async with self._lock *)
AcquireSave(t) ==
    /\ spc[t] = "savelock"
    /\ LockFree
    /\ lock' = t
    /\ spc' = [spc EXCEPT ![t] = "open"]
    /\ UNCHANGED <<state, initialized, disk, sop, scur, nops,
                   written, interrupted, clean, base, started, rets, overlap>>

(* open(temp_file, 'w'): truncates the temp file *)
SaveOpen(t) ==
    /\ spc[t] = "open"
    /\ disk' = [disk EXCEPT ![temp_file] = Partial]
    /\ spc' = [spc EXCEPT ![t] = "dump"]
    /\ UNCHANGED <<state, initialized, lock, sop, scur, nops,
                   written, interrupted, clean, base, started, rets, overlap>>

(* A save that dumps the map as it was loaded, not as it is *)
SaveDumpStale(t) ==
    /\ spc[t] = "dump"
    /\ disk' = [disk EXCEPT ![temp_file] = Complete(base)]
    /\ written' = written \cup {base}
    /\ spc' = [spc EXCEPT ![t] = "rename"]
    /\ UNCHANGED <<state, initialized, lock, sop, scur, nops,
                   interrupted, clean, base, started, rets, overlap>>

(* json.dump(self._state, f): the whole document reaches the temp file *)
SaveDump(t) ==
    /\ spc[t] = "dump"
    /\ disk' = [disk EXCEPT ![temp_file] = Complete(state)]
    /\ written' = written \cup {state}
    /\ spc' = [spc EXCEPT ![t] = "rename"]
    /\ UNCHANGED <<state, initialized, lock, sop, scur, nops,
                   interrupted, clean, base, started, rets, overlap>>

(* os.rename(temp_file, self._state_file); the lock is released *)
SaveRename(t) ==
    /\ spc[t] = "rename"
    /\ disk' = Renamed(disk)
    /\ lock' = IF lock = t THEN NoTask ELSE lock
    /\ spc' = [spc EXCEPT ![t] = "idle"]
    /\ UNCHANGED <<state, initialized, sop, scur, nops,
                   written, interrupted, clean, base, started, rets, overlap>>

(* A disk error (open, write or rename raises) inside the save: the except  *)
(* branch logs, unlinks the temp file, and the lock is released.            *)
SaveFail(t) ==
    /\ spc[t] \in {"open", "dump", "rename"}
    /\ disk' = Unlinked(disk)
    /\ interrupted' = (interrupted \/ spc[t] # "open")
    /\ lock' = IF lock = t THEN NoTask ELSE lock
    /\ spc' = [spc EXCEPT ![t] = "idle"]
    /\ UNCHANGED <<state, initialized, sop, scur, nops,
                   written, clean, base, started, rets, overlap>>

(* initialize() / _load_state(): once per process.  A missing file gives    *)
(* the empty map; a file that does not parse is copied aside and gives the  *)
(* empty map; the parse runs under the lock.                                *)
Loaded(f) == IF f.kind = "doc" THEN f.doc ELSE EmptyMap

StoreInitialize ==
    /\ ~initialized
    /\ (disk[state_file].kind # "absent") => LockFree
    /\ state' = Loaded(disk[state_file])
    /\ initialized' = TRUE
    /\ base' = Loaded(disk[state_file])
    /\ clean' = (clean /\ \A k \in Keys : started[k] = 0)
    /\ UNCHANGED <<lock, disk, spc, sop, scur, nops, written, interrupted, started, rets, overlap>>

(* The process dies at any point and is started again: memory is lost, the  *)
(* files stay as they are.                                                  *)
Crash ==
    /\ \E t \in STasks : spc[t] # "idle"
    /\ interrupted' = (interrupted \/ \E t \in STasks : spc[t] \in {"dump", "rename"})
    /\ state' = EmptyMap
    /\ initialized' = FALSE
    /\ lock' = NoTask
    /\ spc' = [t \in STasks |-> "idle"]
    /\ scur' = [t \in STasks |-> 0]
    /\ clean' = TRUE
    /\ base' = EmptyMap
    /\ started' = [k \in Keys |-> 0]
    /\ rets' = [k \in Keys |-> {}]
    /\ overlap' = FALSE
    /\ sop' = [t \in STasks |-> NoOp]
    /\ UNCHANGED <<disk, nops, written>>

StoreNext ==
    \/ \E t \in STasks : StartOp(t) /\ UNCHANGED <<nvars, dvars>>
    \/ \E t \in STasks : AcquireMutate(t) /\ UNCHANGED <<nvars, dvars>>
    \/ \E t \in STasks : UpdateRead(t) /\ UNCHANGED <<nvars, dvars>>
    \/ \E t \in STasks : MutateWrite(t) /\ UNCHANGED <<nvars, dvars>>
    \/ \E t \in STasks : SaveEnter(t) /\ UNCHANGED <<nvars, dvars>>
    \/ \E t \in STasks : AcquireSave(t) /\ UNCHANGED <<nvars, dvars>>
    \/ \E t \in STasks : SaveOpen(t) /\ UNCHANGED <<nvars, dvars>>
    \/ \E t \in STasks : SaveDump(t) /\ UNCHANGED <<nvars, dvars>>
    \/ \E t \in STasks : SaveRename(t) /\ UNCHANGED <<nvars, dvars>>
    \/ \E t \in STasks : SaveFail(t) /\ UNCHANGED <<nvars, dvars>>
    \/ StoreInitialize /\ UNCHANGED <<nvars, dvars>>
    \/ Crash /\ UNCHANGED <<nvars, dvars>>

StoreSpec == StoreInit /\ [][StoreNext]_vars

-----------------------------------------------------------------------------
(* NestProtectMCP: token lifecycle and request pipeline (server.py).        *)
(* One step per network suspension point: the POST to the token endpoint    *)
(* and each device-API call.  Everything between two suspension points,     *)
(* the StateManager calls of _save_auth_state included, runs in one step.   *)
(* The operations of this specification are issued one after the other.     *)

(* Bounds *)
MaxCalls == 3

MaxTicks == 1

(* Program constants *)
TOKEN_EXPIRY_BUFFER == 300

DefaultExpiresIn == 3600

None == "None"
Tasks == {"a"}

(* The token endpoint never issues the access token that is in use. *)
GrantToken(at) == IF at = "T1" THEN "T2" ELSE "T1"

(* The expires_in field of a token answer as it arrives: a number, no field *)
(* at all ("absent"), or text that int() rejects ("soon").                  *)
ExpiresInFields == {"60", "3600"}

(* int(token_data.get('expires_in', 3600)) *)
IntOf(f) ==
    CASE f = "60"   -> 60
      [] f = "3600" -> 3600
      [] OTHER      -> DefaultExpiresIn

Ans(k, a, r, e, st, m) ==
    [kind |-> k, at |-> a, rt |-> r, ein |-> e, status |-> st, text |-> m]

(* Answers of the OAuth token endpoint to the refresh_token grant:          *)
(*   ok        200 with a JSON body holding access_token                    *)
(*   malformed 200 with a JSON body that lacks access_token (KeyError)      *)
(*   http      a status for which raise_for_status() raises                 *)
(*   transport an aiohttp.ClientError raised by the transport; `text` tells *)
(*             whether its message happens to contain "401" or "403"        *)
(*   timeout   asyncio.TimeoutError (not an aiohttp.ClientError)            *)
TokenAnswers ==
    {Ans("ok", GrantToken(access_token), r, e, 200, FALSE) :
        r \in {"absent", "R1"}, e \in ExpiresInFields \cup {"absent", "soon"}}
    \cup {Ans("malformed", None, "absent", "absent", 200, FALSE)}
    \cup {Ans("http", None, "absent", "absent", st, FALSE) : st \in {400, 401, 403, 500}}
    \cup {Ans("transport", None, "absent", "absent", 0, m) : m \in BOOLEAN}
    \cup {Ans("timeout", None, "absent", "absent", 0, FALSE)}

AnsLabel(ans) ==
    CASE ans.kind = "ok" /\ ans.ein = "soon" -> "ok_badexp"
      [] ans.kind = "http" /\ ans.status = 401 -> "http401"
      [] ans.kind = "http" /\ ans.status = 403 -> "http403"
      [] ans.kind = "http" -> "http_other"
      [] OTHER -> ans.kind

(* Answers of the device API to one call *)
ApiAnswers == {"200", "401", "500", "transport", "timeout"}

(* '401' in str(e) or '403' in str(e): str() of a ClientResponseError       *)
(* starts with its status; the text of a transport error is arbitrary.      *)
ClearsTokensOn401Only(ans) ==
    \/ ans.kind = "http" /\ ans.status = 401
    \/ ans.kind = "transport" /\ ans.text

ClearsTokens(ans) ==
    \/ ans.kind = "http" /\ ans.status \in {401, 403}
    \/ ans.kind = "transport" /\ ans.text

(* time.time() + int(expires_in) *)
ExpiresAtNoClock(t, ein) == ein

ExpiresAt(t, ein) == t + ein

(* access_token: not self._access_token or time.time() >= expires_at - 300 *)
NeedsRefreshNoBuffer(at, exp, t) == at = None \/ t >= exp

NeedsRefresh(at, exp, t) == at = None \/ t >= exp - TOKEN_EXPIRY_BUFFER

(* _make_request: not self._access_token or time.time() >= expires_at *)
Expired(at, exp, t) == at = None \/ t >= exp

(* _refresh_access_token: `if not self._refresh_token: return` *)
NoRefreshTokenNever(rt) == FALSE

NoRefreshToken(rt) == rt = None

(* The three token keys of self._state_keys *)
TokenMap(at, rt, exp) ==
    [k \in {"nest_access_token", "nest_refresh_token", "nest_token_expires_at"} |->
        CASE k = "nest_access_token"  -> at
          [] k = "nest_refresh_token" -> rt
          [] OTHER                    -> exp]

TokensOf(m) ==
    <<Get(m, "nest_access_token", None), Get(m, "nest_refresh_token", None),
      Get(m, "nest_token_expires_at", 0)>>

FileTokens(d) ==
    IF d[state_file].kind = "doc" THEN TokensOf(d[state_file].doc)
    ELSE <<None, None, 0>>

(* StateManager._save_state run to completion without a disk error: a       *)
(* no-op when the manager is not initialized.                               *)
Saved(d, m) ==
    IF initialized THEN Renamed([d EXCEPT ![temp_file] = Complete(m)]) ELSE d

(* The server fields and the store, as one value G:                         *)
(*   at, rt, exp : the token fields;  st : StateManager._state;  dk : files *)
(* _save_auth_state: three set() calls, each followed by a save (the device *)
(* map is saved only when it is not empty; no device is cached here).       *)
SaveAuthG(G) ==
    LET m == StateSet(StateSet(StateSet(G.st, "nest_access_token", G.at),
                               "nest_refresh_token", G.rt),
                      "nest_token_expires_at", G.exp)
    IN [G EXCEPT !.st = m, !.dk = Saved(G.dk, m)]

CurG ==
    [at |-> access_token, rt |-> refresh_token, exp |-> token_expires_at,
     st |-> state, dk |-> disk, se |-> session]

(* _refresh_access_token once the token endpoint has answered:              *)
(* the new fields and store, and the error raised ("none": returns).        *)
RefreshOutcome(ans, G) ==
    LET newrt == IF ans.rt = "absent" THEN G.rt ELSE ans.rt
    IN CASE ans.kind = "ok" /\ ans.ein = "soon" ->
              \* access_token and refresh_token are assigned, then int() raises
              [g |-> [G EXCEPT !.at = ans.at, !.rt = newrt], err |-> "NestAuthError"]
         [] ans.kind = "ok" /\ ans.ein # "soon" ->
              [g |-> SaveAuthG([G EXCEPT !.at = ans.at, !.rt = newrt,
                                         !.exp = ExpiresAt(now, IntOf(ans.ein))]),
               err |-> "none"]
         [] ans.kind \in {"http", "transport"} ->
              IF ClearsTokens(ans)
              THEN [g |-> SaveAuthG([G EXCEPT !.at = None, !.rt = None, !.exp = 0]),
                    err |-> "NestConnectionError"]
              ELSE [g |-> G, err |-> "NestConnectionError"]
         [] OTHER ->
              \* KeyError, asyncio.TimeoutError: `except Exception`
              [g |-> G, err |-> "NestAuthError"]

Blank ==
    [pc |-> "idle", op |-> "none", ctx |-> "none", calls |-> 0, posts |-> 0,
     b1 |-> None, b2 |-> None, r1 |-> "none", r2 |-> "none",
     res |-> "none", ret |-> None, ans |-> "none", chg |-> FALSE,
     grant |-> None, at0 |-> None, rt0 |-> None, exp0 |-> 0, f0 |-> None,
     valid |-> TRUE, sv |-> "ok",
     refs |-> 0, t0 |-> 0, p1 |-> 0, m1 |-> <<None, None, 0>>,
     v1 |-> FALSE, v2 |-> FALSE]

Done(rec, res, ret) == [rec EXCEPT !.pc = "done", !.res = res, !.ret = ret]

(* _make_request after the 401: `if not new_token: raise NestAuthError`,    *)
(* else the retry is issued with the new token.                             *)
Retry(rec, tok) ==
    IF tok = None THEN Done(rec, "NestAuthError", None)
    ELSE [rec EXCEPT !.pc = "call2", !.calls = 2, !.b2 = tok]

(* What follows a _refresh_access_token that returned normally, by caller:  *)
(*   top  refresh() called on its own                                       *)
(*   at   the access_token property: save, return self._access_token        *)
(*   pre  _make_request before the first call: issue it                     *)
(*   rat  the access_token read of _make_request after a 401                *)
ContLeaf(ctx, G, rec) ==
    CASE ctx = "top" -> [g |-> G, rec |-> Done(rec, "ok", None)]
      [] ctx = "at"  ->
            LET G2 == SaveAuthG(G)
            IN [g |-> G2,
                rec |-> [Done(rec, "ok", G2.at) EXCEPT
                            !.valid = ~NeedsRefresh(G2.at, G2.exp, now)]]
      [] ctx = "pre" ->
            [g |-> G,
             rec |-> [rec EXCEPT !.pc = "call1", !.calls = 1, !.b1 = G.at,
                                 !.p1 = rec.posts, !.m1 = <<G.at, G.rt, G.exp>>,
                                 !.v1 = ~NeedsRefresh(G.at, G.exp, now)]]
      [] OTHER ->
            LET G2 == SaveAuthG(G)
            IN [g |-> G2,
                rec |-> Retry([rec EXCEPT !.v2 = ~NeedsRefresh(G2.at, G2.exp, now)],
                              G2.at)]

(* _refresh_access_token up to its suspension point: returns at once        *)
(* without a refresh token, else creates the session if there is none and   *)
(* POSTs the grant.                                                         *)
BeginLeaf(ctx, G, rec) ==
    IF NoRefreshToken(G.rt) THEN ContLeaf(ctx, G, [rec EXCEPT !.refs = @ + 1])
    ELSE [g |-> [G EXCEPT !.se = "open"],
          rec |-> [rec EXCEPT !.pc = "post", !.ctx = ctx, !.posts = @ + 1,
                              !.refs = @ + 1]]

(*   r401  the forced refresh of _make_request after a 401 returned: the    *)
(*         access_token property is read (it refreshes again when the token *)
(*         is absent or inside the buffer).                                 *)
Cont(ctx, G, rec) ==
    IF ctx = "r401"
    THEN IF NeedsRefresh(G.at, G.exp, now)
         THEN BeginLeaf("rat", G, rec)
         ELSE [g |-> G, rec |-> Retry([rec EXCEPT !.v2 = TRUE], G.at)]
    ELSE ContLeaf(ctx, G, rec)

Begin(ctx, G, rec) ==
    IF NoRefreshToken(G.rt) THEN Cont(ctx, G, [rec EXCEPT !.refs = @ + 1])
    ELSE [g |-> [G EXCEPT !.se = "open"],
          rec |-> [rec EXCEPT !.pc = "post", !.ctx = ctx, !.posts = @ + 1,
                              !.refs = @ + 1]]

NoGrant == [tok |-> None, ein |-> 0, time |-> 0]

(* The step's result R = [g, rec] becomes the next state. *)
Apply(t, R) ==
    /\ access_token' = R.g.at
    /\ refresh_token' = R.g.rt
    /\ token_expires_at' = R.g.exp
    /\ state' = R.g.st
    /\ disk' = R.g.dk
    /\ session' = R.g.se
    /\ tk' = [tk EXCEPT ![t] = R.rec]

StoreIdle ==
    /\ UNCHANGED <<initialized, lock, spc, sop, scur, nops, written, interrupted,
                   clean, base, started, rets, overlap>>
    /\ UNCHANGED dvars

Start(op) ==
    [Blank EXCEPT !.op = op, !.at0 = access_token, !.rt0 = refresh_token,
                  !.exp0 = token_expires_at, !.t0 = now,
                  !.f0 = IF fresh # NoGrant /\ fresh.ein > TOKEN_EXPIRY_BUFFER
                         THEN fresh.tok ELSE None]

(* refresh(): _refresh_access_token called on its own *)
StartRefresh(t) ==
    /\ tk[t].pc \in {"idle", "done"}
    /\ ncalls < MaxCalls
    /\ Apply(t, Begin("top", CurG, Start("refresh")))
    /\ ncalls' = ncalls + 1
    /\ UNCHANGED <<now, fresh>>
    /\ StoreIdle

(* await server.access_token *)
StartAccessToken(t) ==
    /\ tk[t].pc \in {"idle", "done"}
    /\ ncalls < MaxCalls
    /\ Apply(t, IF NeedsRefresh(access_token, token_expires_at, now)
                THEN Begin("at", CurG, Start("access_token"))
                ELSE [g |-> CurG, rec |-> Done(Start("access_token"), "ok", access_token)])
    /\ ncalls' = ncalls + 1
    /\ UNCHANGED <<now, fresh>>
    /\ StoreIdle

(* _make_request up to its first suspension point *)
StartRequest(t) ==
    /\ tk[t].pc \in {"idle", "done"}
    /\ ncalls < MaxCalls
    /\ LET G == [CurG EXCEPT !.se = "open"]
       IN Apply(t, IF Expired(access_token, token_expires_at, now)
                   THEN Begin("pre", G, Start("request"))
                   ELSE Cont("pre", G, Start("request")))
    /\ ncalls' = ncalls + 1
    /\ UNCHANGED <<now, fresh>>
    /\ StoreIdle

(* The token endpoint answers the POST of task t. *)
TokenAnswer(t) ==
    /\ tk[t].pc = "post"
    /\ \E ans \in TokenAnswers :
         LET G   == CurG
             O   == RefreshOutcome(ans, G)
             mem == <<O.g.at, O.g.rt, O.g.exp>>
             chg == mem # <<G.at, G.rt, G.exp>>
             rec == [tk[t] EXCEPT
                        !.ans = AnsLabel(ans),
                        !.chg = chg,
                        !.grant = IF O.err = "none" THEN ans.at ELSE @]
         IN /\ Apply(t, IF O.err = "none" THEN Cont(rec.ctx, O.g, rec)
                        ELSE [g |-> O.g, rec |-> Done(rec, O.err, None)])
            /\ fresh' = IF O.err = "none"
                        THEN [tok |-> ans.at, ein |-> IntOf(ans.ein), time |-> now]
                        ELSE IF chg THEN NoGrant ELSE fresh
    /\ UNCHANGED <<now, ncalls>>
    /\ StoreIdle

(* The device API answers the first call of task t. *)
ApiAnswer1RefreshesOnError(t) ==
    /\ tk[t].pc = "call1"
    /\ \E r \in ApiAnswers :
         LET rec == [tk[t] EXCEPT !.r1 = r, !.grant = None]
         IN Apply(t, IF r = "200" THEN [g |-> CurG, rec |-> Done(rec, "ok", "body1")]
                     ELSE Begin("r401", CurG, rec))
    /\ UNCHANGED <<now, ncalls, fresh>>
    /\ StoreIdle

ApiAnswer1(t) ==
    /\ tk[t].pc = "call1"
    /\ \E r \in ApiAnswers :
         LET rec == [tk[t] EXCEPT !.r1 = r, !.grant = None]
         IN Apply(t, CASE r = "200" -> [g |-> CurG, rec |-> Done(rec, "ok", "body1")]
                       [] r = "401" -> Begin("r401", CurG, rec)
                       [] r = "timeout" -> [g |-> CurG, rec |-> Done(rec, "TimeoutError", None)]
                       [] OTHER -> [g |-> CurG, rec |-> Done(rec, "NestConnectionError", None)])
    /\ UNCHANGED <<now, ncalls, fresh>>
    /\ StoreIdle

(* The device API answers the retry of task t. *)
ApiAnswer2(t) ==
    /\ tk[t].pc = "call2"
    /\ \E r \in ApiAnswers :
         LET rec == [tk[t] EXCEPT !.r2 = r]
         IN Apply(t, CASE r = "200" -> [g |-> CurG, rec |-> Done(rec, "ok", "body2")]
                       [] r = "timeout" -> [g |-> CurG, rec |-> Done(rec, "TimeoutError", None)]
                       [] OTHER -> [g |-> CurG, rec |-> Done(rec, "NestConnectionError", None)])
    /\ UNCHANGED <<now, ncalls, fresh>>
    /\ StoreIdle

(* Time passes. *)
Tick ==
    /\ now < MaxTicks * TOKEN_EXPIRY_BUFFER
    /\ now' = now + TOKEN_EXPIRY_BUFFER
    /\ fresh' = NoGrant
    /\ UNCHANGED <<access_token, refresh_token, token_expires_at, session,
                   tk, ncalls, state, disk>>
    /\ StoreIdle

(* The server after construction and _load_auth_state: the token fields are *)
(* what the store's map held, each key loaded on its own, so an access      *)
(* token may be held without a refresh token (the same fields are left by a *)
(* grant without refresh_token that is answered after a 401 clear).  The    *)
(* StateManager is initialized (its file holds the map) or was never        *)
(* initialized: NestProtectMCP.initialize does not initialize it.           *)
InitTokens ==
    {<<None, None, 0>>, <<None, "R0", 0>>,
     <<"A0", "R0", 0>>, <<"A0", "R0", 600>>, <<"A0", "R0", 3600>>,
     <<"A0", None, 0>>, <<"A0", None, 3600>>}

Init ==
    /\ \E tr \in InitTokens :
          /\ access_token = tr[1]
          /\ refresh_token = tr[2]
          /\ token_expires_at = tr[3]
          /\ \E i \in BOOLEAN :
                /\ initialized = i
                /\ state = TokenMap(tr[1], tr[2], tr[3])
                /\ disk = [x \in Files |->
                             IF i /\ x = state_file
                             THEN Complete(TokenMap(tr[1], tr[2], tr[3]))
                             ELSE Absent]
    /\ session = "none"
    /\ now = 0
    /\ tk = [t \in Tasks |-> Blank]
    /\ ncalls = 0
    /\ fresh = NoGrant
    /\ lock = NoTask
    /\ spc = [t \in STasks |-> "idle"]
    /\ sop = [t \in STasks |-> NoOp]
    /\ scur = [t \in STasks |-> 0]
    /\ nops = 0
    /\ written = {}
    /\ interrupted = FALSE
    /\ clean = TRUE
    /\ base = EmptyMap
    /\ started = [k \in Keys |-> 0]
    /\ rets = [k \in Keys |-> {}]
    /\ overlap = FALSE
    /\ NoDispatch

Next ==
    \/ \E t \in Tasks : StartRefresh(t)
    \/ \E t \in Tasks : StartAccessToken(t)
    \/ \E t \in Tasks : StartRequest(t)
    \/ \E t \in Tasks : TokenAnswer(t)
    \/ \E t \in Tasks : ApiAnswer1(t)
    \/ \E t \in Tasks : ApiAnswer2(t)
    \/ Tick

Spec == Init /\ [][Next]_vars

-----------------------------------------------------------------------------
(* Token operations over a State Store that can fail while saving           *)
(* (FaultSpec).  Each _save_auth_state call ends in one of three ways:      *)
(*   ok     the three set() calls and their saves succeed                   *)
(*   disk   writing the file fails: _save_state logs and swallows the       *)
(*          error, the map is updated, the file is left as it was           *)
(*   store  set() raises: _save_auth_state logs and raises NestAuthError    *)
SaveFaults == {"ok", "disk", "store"}

SaveAuthF(G, f) ==
    LET S == SaveAuthG(G)
    IN CASE f = "disk"  -> [g |-> [S EXCEPT !.dk = G.dk], err |-> "none"]
         [] f = "store" -> [g |-> G, err |-> "NestAuthError"]
         [] OTHER       -> [g |-> S, err |-> "none"]

(* The branches of _refresh_access_token that call _save_auth_state: the    *)
(* grant and the 401/403 clear.                                             *)
Saves(ans) ==
    \/ ans.kind = "ok" /\ ans.ein # "soon"
    \/ ans.kind \in {"http", "transport"} /\ ClearsTokens(ans)

(* _refresh_access_token once the token endpoint has answered, its save     *)
(* ending as f.  A NestAuthError raised by the save after a grant is caught *)
(* by `except Exception` and raised again as NestAuthError; raised in the   *)
(* ClientError handler it propagates as it is.                              *)
FaultyOutcome(ans, G, f) ==
    LET O == RefreshOutcome(ans, G)
    IN IF ~Saves(ans) \/ f = "ok" THEN O
       ELSE IF f = "disk" THEN [g |-> [O.g EXCEPT !.dk = G.dk], err |-> O.err]
       ELSE [g |-> [O.g EXCEPT !.st = G.st, !.dk = G.dk], err |-> "NestAuthError"]

(* The token endpoint answers the POST of a refresh() or access_token call; *)
(* the save of the refresh ends as f1, the save of the access_token         *)
(* property, whose errors are logged and dropped, as f2.                    *)
FaultyTokenAnswer(t) ==
    /\ tk[t].pc = "post"
    /\ \E ans \in TokenAnswers, f1 \in SaveFaults, f2 \in SaveFaults :
         LET G   == CurG
             O   == FaultyOutcome(ans, G, f1)
             rec == [tk[t] EXCEPT
                        !.ans = AnsLabel(ans),
                        !.chg = <<O.g.at, O.g.rt, O.g.exp>> # <<G.at, G.rt, G.exp>>,
                        !.grant = IF ans.kind = "ok" /\ ans.ein # "soon" THEN ans.at ELSE @,
                        !.sv = IF Saves(ans) THEN f1 ELSE @]
         IN Apply(t, IF O.err # "none" THEN [g |-> O.g, rec |-> Done(rec, O.err, None)]
                     ELSE IF rec.ctx = "at"
                          THEN LET G2 == SaveAuthF(O.g, f2).g
                               IN [g |-> G2, rec |-> Done(rec, "ok", G2.at)]
                          ELSE [g |-> O.g, rec |-> Done(rec, "ok", None)])
    /\ fresh' = NoGrant
    /\ UNCHANGED <<now, ncalls>>
    /\ StoreIdle

FaultNext ==
    \/ \E t \in Tasks : StartRefresh(t)
    \/ \E t \in Tasks : StartAccessToken(t)
    \/ \E t \in Tasks : FaultyTokenAnswer(t)
    \/ Tick

FaultSpec == Init /\ [][FaultNext]_vars

-----------------------------------------------------------------------------
(* Concurrent refresh() calls (ConcSpec).  Several tasks run                *)
(* _refresh_access_token at once; every POST is answered with a grant.      *)
(* A task is suspended during its POST and, taking every await as a point   *)
(* where another task may run, before each of the three set() calls of      *)
(* _save_auth_state.  The three assignments to the token fields have no     *)
(* await between them and are one step.                                     *)
RTasks == {"p", "q"}

CBlank ==
    [pc |-> "idle", res |-> "none", wrote |-> <<None, None, 0>>,
     had |-> None, art |-> "none"]

Grants == {ans \in TokenAnswers : ans.kind = "ok" /\ ans.ein # "soon"}

CInit ==
    /\ \E tr \in {<<None, "R0", 0>>, <<"A0", "R0", 3600>>} :
          /\ access_token = tr[1]
          /\ refresh_token = tr[2]
          /\ token_expires_at = tr[3]
          /\ state = TokenMap(tr[1], tr[2], tr[3])
          /\ \E i \in BOOLEAN :
                /\ initialized = i
                /\ disk = [x \in Files |->
                             IF i /\ x = state_file
                             THEN Complete(TokenMap(tr[1], tr[2], tr[3]))
                             ELSE Absent]
    /\ session = "none"
    /\ now = 0
    /\ tk = [t \in RTasks |-> CBlank]
    /\ ncalls = 0
    /\ fresh = NoGrant
    /\ lock = NoTask
    /\ spc = [t \in STasks |-> "idle"]
    /\ sop = [t \in STasks |-> NoOp]
    /\ scur = [t \in STasks |-> 0]
    /\ nops = 0
    /\ written = {}
    /\ interrupted = FALSE
    /\ clean = TRUE
    /\ base = EmptyMap
    /\ started = [k \in Keys |-> 0]
    /\ rets = [k \in Keys |-> {}]
    /\ overlap = FALSE
    /\ NoDispatch

(* refresh() up to its POST *)
CStart(t) ==
    /\ tk[t].pc \in {"idle", "done"}
    /\ ncalls < MaxCalls
    /\ ~NoRefreshToken(refresh_token)
    /\ tk' = [tk EXCEPT ![t] = [CBlank EXCEPT !.pc = "post"]]
    /\ session' = "open"
    /\ ncalls' = ncalls + 1
    /\ UNCHANGED <<access_token, refresh_token, token_expires_at, state, disk,
                   now, fresh>>
    /\ StoreIdle

(* The grant arrives: the three token fields are assigned. *)
CAnswer(t) ==
    /\ tk[t].pc = "post"
    /\ \E ans \in Grants :
         LET newrt == IF ans.rt = "absent" THEN refresh_token ELSE ans.rt
             exp   == ExpiresAt(now, IntOf(ans.ein))
         IN /\ access_token' = ans.at
            /\ refresh_token' = newrt
            /\ token_expires_at' = exp
            /\ tk' = [tk EXCEPT ![t] = [@ EXCEPT !.pc = "set1",
                                                 !.wrote = <<ans.at, newrt, exp>>,
                                                 !.had = refresh_token,
                                                 !.art = ans.rt]]
    /\ UNCHANGED <<state, disk, session, now, ncalls, fresh>>
    /\ StoreIdle

(* One set() call of _save_auth_state: the field as it is now goes into the *)
(* store's map, which is then saved.                                        *)
SetStep(pc) ==
    CASE pc = "set1" -> [key |-> "nest_access_token", val |-> access_token, nxt |-> "set2"]
      [] pc = "set2" -> [key |-> "nest_refresh_token", val |-> refresh_token, nxt |-> "set3"]
      [] OTHER       -> [key |-> "nest_token_expires_at", val |-> token_expires_at, nxt |-> "done"]

CSet(t) ==
    /\ tk[t].pc \in {"set1", "set2", "set3"}
    /\ LET k == SetStep(tk[t].pc)
           m == StateSet(state, k.key, k.val)
       IN /\ state' = m
          /\ disk' = Saved(disk, m)
          /\ tk' = [tk EXCEPT ![t] = [@ EXCEPT !.pc = k.nxt,
                                               !.res = IF k.nxt = "done" /\ @ = "none"
                                                       THEN "ok" ELSE @]]
    /\ UNCHANGED <<access_token, refresh_token, token_expires_at, session,
                   now, ncalls, fresh>>
    /\ StoreIdle

ConcNext ==
    \/ \E t \in RTasks : CStart(t)
    \/ \E t \in RTasks : CAnswer(t)
    \/ \E t \in RTasks : CSet(t)
    \/ Tick

ConcSpec == CInit /\ [][ConcNext]_vars

-----------------------------------------------------------------------------
(* Concurrent refresh() calls of which some are rejected (RaceSpec): as     *)
(* ConcSpec, and the token endpoint may answer a POST with 401 or 403.      *)

Rejections == {ans \in TokenAnswers : ans.kind = "http" /\ ClearsTokens(ans)}

(* The rejection arrives: the three token fields are cleared; the cleared   *)
(* state is saved and NestConnectionError is raised.                        *)
CReject(t) ==
    /\ tk[t].pc = "post"
    /\ \E ans \in Rejections :
         /\ access_token' = None
         /\ refresh_token' = None
         /\ token_expires_at' = 0
         /\ tk' = [tk EXCEPT ![t] = [@ EXCEPT !.pc = "set1",
                                              !.res = "NestConnectionError"]]
    /\ UNCHANGED <<state, disk, session, now, ncalls, fresh>>
    /\ StoreIdle

RaceNext ==
    \/ \E t \in RTasks : CStart(t)
    \/ \E t \in RTasks : CAnswer(t)
    \/ \E t \in RTasks : CReject(t)
    \/ \E t \in RTasks : CSet(t)
    \/ Tick

RaceSpec == CInit /\ [][RaceNext]_vars

-----------------------------------------------------------------------------
(* Properties of the StateManager, checked under StoreSpec.                 *)

(* C1: at every step of every save, crash or disk error included, the       *)
(* destination state file is absent or holds one complete document that a   *)
(* save dumped in full; a truncated document is never in the destination.   *)
C1_AtomicSave ==
    \/ disk[state_file].kind = "absent"
    \/ /\ disk[state_file].kind = "doc"
       /\ disk[state_file].doc \in written

(* C1 witness: a save was cut short after the temp file was opened, the     *)
(* truncated temp file is still there, and the destination holds a document.*)
C1_Witness ==
    /\ interrupted
    /\ disk["data/state.json.tmp"] = Partial
    /\ disk[state_file].kind = "doc"

(* C2: once every call of a run of concurrent update() calls has returned,  *)
(* the stored value is the updater applied once per call (base + N), and    *)
(* the calls returned the N distinct values base+1 .. base+N.               *)
C2_NoLostUpdate ==
    (clean /\ AllIdle) =>
        \A k \in Keys :
            /\ Get(state, k, 0) = Get(base, k, 0) + started[k]
            /\ rets[k] = {Get(base, k, 0) + i : i \in 1..started[k]}

(* C2 witness: two update() calls on "counter" overlapped and all returned. *)
C2_Witness ==
    /\ clean /\ AllIdle /\ overlap
    /\ started["counter"] >= 2
    /\ Get(state, "counter", 0) = Get(base, "counter", 0) + started["counter"]

-----------------------------------------------------------------------------
(* Properties of the token lifecycle and the request pipeline, under Spec.  *)
(* The record tk[t] of an operation keeps what was observed while it ran:   *)
(* r1, r2 the answers to its device calls, b1, b2 the bearer tokens they    *)
(* carried, posts its calls to the token endpoint, ans the last answer of   *)
(* the token endpoint, chg whether that answer changed a token field, grant *)
(* the token of its last successful grant since the 401, at0, rt0, exp0 the *)
(* token fields when it started, res the error raised ("ok": none) and ret  *)
(* the value returned; refs its calls of _refresh_access_token, t0 the time *)
(* it started, p1 and m1 the posts made and the token fields held when its  *)
(* first device call went out, v1 and v2 whether the bearer token of the    *)
(* first call and of the retry was outside the expiry buffer then.          *)

Mem == <<access_token, refresh_token, token_expires_at>>

(* C3: a request whose first answer is 401 and whose retry is answered 200  *)
(* makes exactly two device calls, the second carrying the token granted by *)
(* the refresh that followed the 401, and returns the body of the second    *)
(* answer as a success.                                                     *)
C3_RetryWithNewToken ==
    \A t \in Tasks :
        (tk[t].r1 = "401" /\ tk[t].r2 = "200") =>
            /\ tk[t].calls = 2
            /\ tk[t].res = "ok"
            /\ tk[t].ret = "body2"
            /\ tk[t].grant # None
            /\ tk[t].b2 = tk[t].grant

(* C4: a request answered 401 on the first call and 401 on the retry fails  *)
(* with the authentication error NestAuthError after exactly two calls.     *)
C4_SecondRejectionIsAuthError ==
    \A t \in Tasks :
        (tk[t].r1 = "401" /\ tk[t].r2 = "401") =>
            /\ tk[t].calls = 2
            /\ tk[t].res = "NestAuthError"

(* C5: every non-none value that access_token returns is a token whose      *)
(* expiry lies beyond the 300-second buffer at the moment of return.        *)
C5_ValidOrNone ==
    \A t \in Tasks :
        (tk[t].op = "access_token" /\ tk[t].pc = "done" /\ tk[t].res = "ok"
            /\ tk[t].ret # None) => tk[t].valid

(* C6: right after a grant {access_token: T, expires_in: e} the access      *)
(* token is T and expires_at is the time of the refresh plus e; an          *)
(* access_token read made at once after a grant with e beyond the buffer    *)
(* (3600 or the default) returns T without a call to the token endpoint.    *)
C6_GrantThenRead ==
    /\ fresh # NoGrant =>
          /\ access_token = fresh.tok
          /\ token_expires_at = fresh.time + fresh.ein
    /\ \A t \in Tasks :
          (tk[t].op = "access_token" /\ tk[t].f0 # None) =>
              /\ tk[t].pc = "done"
              /\ tk[t].res = "ok"
              /\ tk[t].ret = tk[t].f0
              /\ tk[t].posts = 0

C6_Witness ==
    /\ now > 0
    /\ fresh.ein = DefaultExpiresIn
    /\ fresh.time = now
    /\ \E t \in Tasks :
          /\ tk[t].op = "access_token"
          /\ tk[t].f0 = fresh.tok
          /\ tk[t].ret = fresh.tok
          /\ tk[t].posts = 0

(* C7: when the token endpoint answers a refresh with 401 or 403, the       *)
(* refresh ends with an error, the three token fields are (none, none, 0),  *)
(* and so are the token fields of the store's map and of the state file.    *)
C7_RejectedRefreshClears ==
    \A t \in Tasks :
        tk[t].ans \in {"http401", "http403"} =>
            /\ tk[t].pc = "done"
            /\ tk[t].res # "ok"
            /\ Mem = <<None, None, 0>>
            /\ TokensOf(state) = <<None, None, 0>>
            /\ FileTokens(disk) = <<None, None, 0>>

C7_Witness ==
    \E t \in Tasks :
        /\ tk[t].ans = "http403"
        /\ tk[t].at0 # None
        /\ tk[t].rt0 # None
        /\ Mem = <<None, None, 0>>
        /\ disk[state_file].kind = "doc"
        /\ FileTokens(disk) = <<None, None, 0>>

(* C8: a refresh that fails otherwise than by a 401/403 answer (transport   *)
(* error, other HTTP status, timeout, malformed token answer) raises the    *)
(* connection error NestConnectionError and changes no token field.         *)
C8_OtherFailuresKeepTokens ==
    \A t \in Tasks :
        tk[t].ans \in {"transport", "http_other", "timeout", "malformed", "ok_badexp"} =>
            /\ tk[t].res = "NestConnectionError"
            /\ ~tk[t].chg

C10_PersistedAfterChange ==
    \A t \in Tasks :
        (tk[t].chg /\ tk[t].ans \in {"ok", "http401", "http403"}) =>
            /\ TokensOf(state) = Mem
            /\ FileTokens(disk) = Mem

-----------------------------------------------------------------------------
(* Properties of the token operations over a failing store, under FaultSpec *)

(* C11: when the token endpoint answered a refresh with a grant, refresh()  *)
(* and access_token complete without error and the granted token is the     *)
(* access token in memory, however the save of the token state ended.       *)
C11_SaveFailureNotRaised ==
    \A t \in Tasks :
        tk[t].ans = "ok" =>
            /\ tk[t].pc = "done"
            /\ tk[t].res = "ok"
            /\ access_token = tk[t].grant

-----------------------------------------------------------------------------
(* Properties of concurrent refresh() calls, under ConcSpec.                *)

AllCompleted ==
    /\ \A t \in RTasks : tk[t].pc \in {"idle", "done"}
    /\ \E t \in RTasks : tk[t].pc = "done"

(* C12: once all concurrent refresh() calls have completed, each has        *)
(* completed without error, and the token fields in memory, in the store's  *)
(* map and in the state file are all the three fields that one single call  *)
(* wrote.                                                                   *)
C12_LastWriterWins ==
    AllCompleted =>
        /\ \A t \in RTasks : tk[t].pc = "done" => tk[t].res = "ok"
        /\ \E t \in RTasks :
              /\ tk[t].pc = "done"
              /\ Mem = tk[t].wrote
              /\ TokensOf(state) = Mem
              /\ FileTokens(disk) = Mem

-----------------------------------------------------------------------------
(* Properties of refresh() calls racing with a rejection, under RaceSpec.   *)

(* C13: a grant replaces the refresh token by the one in the answer when    *)
(* the answer has one and keeps the refresh token held when it has none,    *)
(* and the refresh token it leaves is never none.                           *)
C13_RefreshTokenRotation ==
    \A t \in RTasks :
        tk[t].art # "none" =>
            /\ tk[t].wrote[2] = (IF tk[t].art = "absent" THEN tk[t].had ELSE tk[t].art)
            /\ tk[t].wrote[2] # None

-----------------------------------------------------------------------------
(* Device cache and command dispatcher.                                     *)
(*                                                                          *)
(* The tool handlers and the command model are in the source; the methods   *)
(* they call on the server (send_command, hush_alarm, get_devices,          *)
(* add_event_listener) are not, and follow section 4.5 of the design.  The  *)
(* request pipeline is one step here with its possible outcomes; its token  *)
(* handling is the subject of Spec.                                         *)

DevIds == {"d1", "d2"}

LIds == {"l1", "l2"}

(* ProtectAlarmState *)
AlarmOff == [co_alarm_state |-> "off", smoke_alarm_state |-> "off",
             heat_alarm_state |-> "off"]

(* ProtectCommand.validate_command: the command must be one of these. *)
valid_commands == {"hush", "test", "locate", "update"}

ValidCommandAny(v) == TRUE

ValidCommand(v) == v \in valid_commands

(* The commands and target ids callers pass. *)
CommandInputs == {"hush", "test", "bogus"}

DeviceInputs == DevIds \cup {None}

(* The devices of a dict in iteration order. *)
DevOrder == <<"d1", "d2">>

InSet(S) == [d \in DevIds |-> d \in S]

SetToSeq(S) == LET in == InSet(S) IN SelectSeq(DevOrder, LAMBDA d : in[d])

RECURSIVE SeqRange(_)
SeqRange(q) == IF q = <<>> THEN {} ELSE {Head(q)} \cup SeqRange(Tail(q))

(* The cached devices a request addresses: the one named, or all of them.   *)
ResolveTargets(D, device_id) ==
    IF device_id = None THEN SetToSeq(DOMAIN D) ELSE <<device_id>>

DeviceKnownAlways(D, device_id) == TRUE

DeviceKnown(D, device_id) == device_id = None \/ device_id \in DOMAIN D

(* The optimistic patch of the cache after a successful command. *)
PatchNothing(D, targets, command) == D

Patch(D, targets, command) ==
    IF command = "hush"
    THEN [d \in DOMAIN D |-> IF d \in SeqRange(targets) THEN AlarmOff ELSE D[d]]
    ELSE D

(* ProtectEvent: the typed event of a successful command on one device. *)
EventType(command) == IF command = "hush" THEN "alarm_hushed" ELSE command

Event(command, d) == [event_type |-> EventType(command), device_id |-> d]

(* A listener's exception is caught where it is called. *)
ListenerErrorEscapes == FALSE

ListenerErrorCaught == TRUE

(* One event handed to the listeners in registration order. *)
RECURSIVE FanOut(_, _, _)
FanOut(ls, ev, R) ==
    IF ls = <<>> \/ R.escaped THEN R
    ELSE LET l == Head(ls)
             got == [R.dl EXCEPT ![l.id] = Append(@, ev)]
         IN FanOut(Tail(ls), ev,
                   [dl |-> got,
                    lerr |-> R.lerr \/ l.raises,
                    escaped |-> l.raises /\ ~ListenerErrorCaught])

RECURSIVE Emit(_, _, _, _)
Emit(ls, command, targets, R) ==
    IF targets = <<>> \/ R.escaped THEN R
    ELSE Emit(ls, command, Tail(targets),
              FanOut(ls, Event(command, Head(targets)), R))

(* What the caller of the operation sees, given what send_command returned  *)
(* or raised.                                                               *)
HandlerResult(op, ret, raised) ==
    CASE op = "send_command" ->
            IF raised # "none" THEN raised
            ELSE IF ret = TRUE THEN "true" ELSE "false"
      [] op = "_handle_send_command" ->
            IF raised = "ValidationError" THEN "Exception: Invalid command"
            ELSE IF raised = "NestDeviceNotFoundError" THEN "Exception: device not found"
            ELSE IF raised # "none" THEN "Exception: Error sending command"
            ELSE IF ret = TRUE THEN "success: Command sent successfully"
            ELSE "Exception: Error sending command: Failed to send command"
      [] op = "_handle_hush_alarm" ->
            IF raised = "ValueError" THEN "ValueError: device_id is required"
            ELSE IF raised = "NestDeviceNotFoundError" THEN "Exception: device not found"
            ELSE IF raised # "none" THEN "Exception: Error hushing alarm"
            ELSE IF ret = TRUE THEN "success: Alarm hushed successfully"
            ELSE "Exception: Error hushing alarm: Failed to hush alarm"
      [] OTHER -> "none"

CmdIdle == cmd.pc \in {"idle", "done"} /\ ncalls < MaxCalls

CmdFrame ==
    UNCHANGED <<svars, access_token, refresh_token, token_expires_at, session,
                now, tk, fresh, kv, mp, hs, au, su, hm, sy>>

Finished(c, ret, raised) ==
    [c EXCEPT !.pc = "done", !.ret = ret, !.raised = raised,
              !.res = HandlerResult(c.op, ret, raised)]

(* send_command(request) up to its first remote call. *)
SendCommand(c) ==
    IF ~ValidCommand(c.command)
    THEN Finished(c, "none", "NestInvalidCommandError")
    ELSE IF ~DeviceKnown(devices, c.device_id)
    THEN Finished(c, "none", "NestDeviceNotFoundError")
    ELSE LET tg == ResolveTargets(devices, c.device_id)
         IN IF tg = <<>> THEN Finished(c, TRUE, "none")
            ELSE [c EXCEPT !.pc = "remote", !.targets = tg, !.todo = tg]

Call(op, command, device_id) ==
    [NoCmd EXCEPT !.op = op, !.command = command, !.device_id = device_id,
                  !.before = devices, !.dl0 = delivered, !.ls0 = listeners,
                  !.prevfail = cmd.out \in {"NestAuthError", "NestConnectionError",
                                            "TimeoutError"}]

(* A caller passes the request to send_command as it is. *)
StartSendCommand ==
    /\ CmdIdle
    /\ \E command \in CommandInputs, device_id \in DeviceInputs :
          cmd' = SendCommand(Call("send_command", command, device_id))
    /\ ncalls' = ncalls + 1
    /\ UNCHANGED <<devices, listeners, delivered>>
    /\ CmdFrame

(* _handle_send_command: the ProtectCommand is built, and so validated,     *)
(* before send_command is called.                                           *)
HandleSendCommand ==
    /\ CmdIdle
    /\ \E command \in CommandInputs, device_id \in DeviceInputs :
          LET c == Call("_handle_send_command", command, device_id)
          IN cmd' = IF ~ValidCommand(command)
                    THEN Finished(c, "none", "ValidationError")
                    ELSE SendCommand(c)
    /\ ncalls' = ncalls + 1
    /\ UNCHANGED <<devices, listeners, delivered>>
    /\ CmdFrame

(* _handle_hush_alarm: a device id is required, then hush_alarm(device_id). *)
HandleHushAlarm ==
    /\ CmdIdle
    /\ \E device_id \in DeviceInputs :
          LET c == Call("_handle_hush_alarm", "hush", device_id)
          IN cmd' = IF device_id = None
                    THEN Finished(c, "none", "ValueError")
                    ELSE SendCommand(c)
    /\ ncalls' = ncalls + 1
    /\ UNCHANGED <<devices, listeners, delivered>>
    /\ CmdFrame

RemoteOutcomes == {"ok", "rejected", "error"}

RejectedNever(out) == FALSE

Rejected(out) == out = "rejected"

(* The remote service answers the command for the next target.  When all    *)
(* targets have succeeded the cache is patched and the events are emitted;  *)
(* a rejection returns false and a pipeline error is raised to the caller.  *)
RemoteAnswer ==
    /\ cmd.pc = "remote"
    /\ \E out \in RemoteOutcomes :
          LET c == [cmd EXCEPT !.net = @ + 1, !.todo = Tail(@), !.out = out]
          IN CASE Rejected(out) ->
                    /\ cmd' = Finished(c, FALSE, "none")
                    /\ UNCHANGED <<devices, delivered>>
               [] out = "error" ->
                    /\ cmd' = Finished(c, "none", "NestConnectionError")
                    /\ UNCHANGED <<devices, delivered>>
               [] OTHER ->
                    IF c.todo # <<>>
                    THEN /\ cmd' = c
                         /\ UNCHANGED <<devices, delivered>>
                    ELSE LET E == Emit(listeners, c.command, c.targets,
                                       [dl |-> delivered, lerr |-> FALSE,
                                        escaped |-> FALSE])
                         IN /\ devices' = Patch(devices, c.targets, c.command)
                            /\ delivered' = E.dl
                            /\ cmd' = IF E.escaped
                                      THEN Finished([c EXCEPT !.lerr = TRUE],
                                                    "none", "ListenerError")
                                      ELSE Finished([c EXCEPT !.lerr = E.lerr],
                                                    TRUE, "none")
    /\ UNCHANGED <<listeners, ncalls>>
    /\ CmdFrame

(* add_event_listener(callback); the callback may be one that raises. *)
AddEventListener ==
    /\ CmdIdle
    /\ \E l \in LIds, raises \in BOOLEAN :
          /\ \A i \in DOMAIN listeners : listeners[i].id # l
          /\ listeners' = Append(listeners, [id |-> l, raises |-> raises])
    /\ UNCHANGED <<devices, delivered, cmd, ncalls>>
    /\ CmdFrame

(* Device documents of the API: the resource name as its path segments and *)
(* the alarmState of the Smoke, CarbonMonoxide and Heat traits ("absent":   *)
(* the trait is missing).                                                   *)
Raw(d, smoke, co, heat) ==
    [name |-> <<"enterprises", "p", "devices", d>>,
     smoke |-> smoke, co |-> co, heat |-> heat]

(* _map_alarm_state *)
MapAlarmState(a) ==
    CASE a = "absent"                  -> "off"
      [] a = "ALARM_STATE_UNSPECIFIED" -> "off"
      [] a = "ALARM_STATE_OFF"         -> "off"
      [] a = "ALARM_STATE_WARNING"     -> "warning"
      [] a = "ALARM_STATE_CRITICAL"    -> "emergency"
      [] a = "ALARM_STATE_TEST"        -> "testing"
      [] OTHER                         -> "off"

(* _map_device_state: the id is the last segment of the name; co_alarm_state *)
(* is read from the Smoke trait and smoke_alarm_state from CarbonMonoxide.  *)
MapDeviceState(raw) ==
    [id |-> raw.name[Len(raw.name)],
     rec |-> [co_alarm_state |-> MapAlarmState(raw.smoke),
              smoke_alarm_state |-> MapAlarmState(raw.co),
              heat_alarm_state |-> MapAlarmState(raw.heat)]]

(* Answers to GET enterprises/{project}/devices, as _get_devices_from_api   *)
(* sees them: a document with a device list, a document without one, a     *)
(* NestAuthError or another exception of the request pipeline.             *)
RawLists ==
    { <<>>,
      <<Raw("d1", "ALARM_STATE_WARNING", "absent", "absent")>>,
      <<Raw("d1", "ALARM_STATE_WARNING", "absent", "absent"),
        Raw("d2", "ALARM_STATE_OFF", "ALARM_STATE_CRITICAL", "unknown")>> }

(* The exceptions _make_request can raise. *)
PipelineErrors == {"NestAuthError", "NestConnectionError", "TimeoutError"}

FetchAnswers ==
    {[kind |-> "200", devices |-> q] : q \in RawLists}
    \cup {[kind |-> k, devices |-> <<>>] : k \in {"nokey"} \cup PipelineErrors}

(* response.get('devices', []), and [] for every exception. *)
FetchedList(ans) == IF ans.kind = "200" THEN ans.devices ELSE <<>>

(* What _get_devices_from_api raises for an answer: both except clauses     *)
(* return [], so nothing.                                                   *)
FetchRaisesAuth(ans) == IF ans.kind = "NestAuthError" THEN "NestAuthError" ELSE "none"

FetchRaises(ans) == "none"

(* if not self._refresh_token: return [] *)
FetchUnauthenticatedNever(rt) == FALSE

FetchUnauthenticated(rt) == rt = None

(* get_devices consults the API only when nothing is cached. *)
CacheEmptyAlways(D) == TRUE

CacheEmpty(D) == DOMAIN D = {}

(* The cached snapshot as the list get_devices returns. *)
Snapshot(D) ==
    LET ids == SetToSeq(DOMAIN D)
    IN [i \in DOMAIN ids |-> [id |-> ids[i], rec |-> D[ids[i]]]]

Mapped(raws) == [i \in DOMAIN raws |-> MapDeviceState(raws[i])]

(* The cache holding exactly the mapped devices, each under its id. *)
CacheOf(ms) ==
    [d \in {ms[i].id : i \in DOMAIN ms} |->
        (CHOOSE m \in {ms[i] : i \in DOMAIN ms} : m.id = d).rec]

(* get_devices() up to the request of _get_devices_from_api. *)
GetDevices ==
    /\ CmdIdle
    /\ LET c == Call("get_devices", "none", None)
       IN cmd' = IF ~CacheEmpty(devices)
                 THEN Finished(c, Snapshot(devices), "none")
                 ELSE IF FetchUnauthenticated(refresh_token)
                 THEN Finished(c, <<>>, "none")
                 ELSE [c EXCEPT !.pc = "fetch"]
    /\ ncalls' = ncalls + 1
    /\ UNCHANGED <<devices, listeners, delivered>>
    /\ CmdFrame

(* The device API has answered: the fetched devices are mapped and replace  *)
(* the cache, and the mapped devices are returned.                          *)
FetchAnswer ==
    /\ cmd.pc = "fetch"
    /\ \E ans \in FetchAnswers :
          LET ms == Mapped(FetchedList(ans))
              c == [cmd EXCEPT !.net = @ + 1, !.out = ans.kind]
          IN IF FetchRaises(ans) # "none"
             THEN /\ cmd' = Finished(c, "none", FetchRaises(ans))
                  /\ UNCHANGED devices
             ELSE /\ devices' = CacheOf(ms)
                  /\ cmd' = Finished(c, ms, "none")
    /\ UNCHANGED <<listeners, delivered, ncalls>>
    /\ CmdFrame

(* get_device(device_id): the cached record, or None when the id is not     *)
(* cached; no request is made.                                              *)
GetDevice ==
    /\ CmdIdle
    /\ \E device_id \in DevIds :
          LET c == Call("get_device", "none", device_id)
          IN cmd' = Finished(c, IF device_id \in DOMAIN devices
                                THEN <<[id |-> device_id, rec |-> devices[device_id]]>>
                                ELSE <<>>, "none")
    /\ ncalls' = ncalls + 1
    /\ UNCHANGED <<devices, listeners, delivered>>
    /\ CmdFrame

(* The device caches a server starts with: none, or the devices loaded from *)
(* the saved state, which _load_auth_state reads whether or not a refresh   *)
(* token is saved with them.                                                *)
Alarming == [co_alarm_state |-> "warning", smoke_alarm_state |-> "emergency",
             heat_alarm_state |-> "off"]

InitCaches ==
    { <<>>, [d \in {"d1"} |-> Alarming],
      [d \in DevIds |-> IF d = "d1" THEN Alarming ELSE AlarmOff] }

CmdInit ==
    /\ initialized = FALSE
    /\ lock = NoTask
    /\ disk = [f \in Files |-> Absent]
    /\ spc = [t \in STasks |-> "idle"]
    /\ sop = [t \in STasks |-> NoOp]
    /\ scur = [t \in STasks |-> EmptyMap]
    /\ nops = 0
    /\ written = FALSE
    /\ interrupted = FALSE
    /\ clean = TRUE
    /\ base = [k \in Keys |-> 0]
    /\ started = [k \in Keys |-> 0]
    /\ rets = [k \in Keys |-> {}]
    /\ overlap = FALSE
    /\ access_token = None
    /\ refresh_token \in {None, "R0"}
    /\ token_expires_at = 0
    /\ state = TokenMap(access_token, refresh_token, token_expires_at)
    /\ session = "none"
    /\ now = 0
    /\ tk = <<>>
    /\ ncalls = 0
    /\ fresh = <<>>
    /\ devices \in InitCaches
    /\ listeners = <<>>
    /\ delivered = [l \in LIds |-> <<>>]
    /\ cmd = NoCmd
    /\ kv = <<>>
    /\ mp = <<>>
    /\ hs = <<>>
    /\ au = <<>>
    /\ su = <<>>
    /\ hm = <<>>
    /\ sy = <<>>

CmdNext ==
    \/ StartSendCommand
    \/ HandleSendCommand
    \/ HandleHushAlarm
    \/ RemoteAnswer
    \/ AddEventListener
    \/ GetDevices
    \/ FetchAnswer
    \/ GetDevice

CmdSpec == CmdInit /\ [][CmdNext]_vars

-----------------------------------------------------------------------------
(* Properties of the command dispatcher, under CmdSpec.                     *)

Registered == {cmd.ls0[i].id : i \in DOMAIN cmd.ls0}

(* The events of the command in progress, one for each of its targets. *)
CmdEvents == [i \in DOMAIN cmd.targets |-> Event(cmd.command, cmd.targets[i])]

Succeeded == cmd.pc = "done" /\ cmd.out = "ok"

(* C15: when a hush for one cached device has been answered with success by *)
(* the remote service, the call reports success, the cache holds that       *)
(* device with all three alarm fields 'off' and the other devices as they   *)
(* were, and every registered listener has received exactly one more        *)
(* event, of type 'alarm_hushed' for that device.                           *)
C15_HushPatchesAndEmits ==
    (Succeeded /\ cmd.command = "hush" /\ cmd.device_id \in DOMAIN cmd.before) =>
        /\ cmd.res = HandlerResult(cmd.op, TRUE, "none")
        /\ cmd.net = 1
        /\ DOMAIN devices = DOMAIN cmd.before
        /\ \A d \in DOMAIN devices :
              devices[d] = (IF d = cmd.device_id THEN AlarmOff ELSE cmd.before[d])
        /\ \A l \in Registered :
              delivered[l] = Append(cmd.dl0[l],
                                    [event_type |-> "alarm_hushed",
                                     device_id |-> cmd.device_id])
        /\ \A l \in LIds \ Registered : delivered[l] = cmd.dl0[l]

C15_Witness ==
    /\ Succeeded
    /\ cmd.op = "_handle_hush_alarm"
    /\ cmd.device_id = "d1"
    /\ cmd.before = [d \in DevIds |-> IF d = "d1" THEN Alarming ELSE AlarmOff]
    /\ devices = [d \in DevIds |-> AlarmOff]
    /\ cmd.res = "success: Alarm hushed successfully"
    /\ Registered = {"l1"}
    /\ delivered["l1"] = <<[event_type |-> "alarm_hushed", device_id |-> "d1"]>>

(* C16: when the remote service has rejected a command, send_command has    *)
(* returned false, the cache is as it was when the call began and no        *)
(* listener has received anything.                                          *)
C16_RejectionChangesNothing ==
    (cmd.pc = "done" /\ cmd.out = "rejected") =>
        /\ cmd.raised = "none"
        /\ cmd.ret = FALSE
        /\ devices = cmd.before
        /\ delivered = cmd.dl0

C16_Witness ==
    /\ cmd.pc = "done"
    /\ cmd.out = "rejected"
    /\ cmd.op = "send_command"
    /\ cmd.command = "hush"
    /\ cmd.res = "false"
    /\ cmd.before["d1"] = Alarming
    /\ devices["d1"] = Alarming
    /\ Registered # {}

(* C17: a valid command for a device id that is not in the cache ends with  *)
(* the device-not-found error before any remote command; the cache is as it *)
(* was and no listener has received anything.                               *)
C17_UnknownDeviceFails ==
    (cmd.op \in {"send_command", "_handle_send_command", "_handle_hush_alarm"}
        /\ cmd.command \in valid_commands
        /\ cmd.device_id # None
        /\ cmd.device_id \notin DOMAIN cmd.before) =>
        /\ cmd.pc = "done"
        /\ cmd.raised = "NestDeviceNotFoundError"
        /\ cmd.net = 0
        /\ devices = cmd.before
        /\ delivered = cmd.dl0

C17_Witness ==
    /\ cmd.pc = "done"
    /\ cmd.op = "_handle_send_command"
    /\ cmd.command = "hush"
    /\ cmd.device_id = "d2"
    /\ DOMAIN devices = {"d1"}
    /\ cmd.res = "Exception: device not found"
    /\ Registered # {}

(* C18: when a listener raises while the events of a successful command are *)
(* handed out, every registered listener has nevertheless received every    *)
(* event of the command, and the call reports what it reports when no       *)
(* listener fails.                                                          *)
C18_FanOutBestEffort ==
    (Succeeded /\ cmd.todo = <<>> /\ cmd.lerr) =>
        /\ \A l \in Registered : delivered[l] = cmd.dl0[l] \o CmdEvents
        /\ cmd.raised = "none"
        /\ cmd.ret = TRUE
        /\ cmd.res = HandlerResult(cmd.op, TRUE, "none")

C18_Witness ==
    /\ Succeeded
    /\ cmd.lerr
    /\ cmd.ls0 = <<[id |-> "l1", raises |-> TRUE], [id |-> "l2", raises |-> FALSE]>>
    /\ cmd.command = "hush"
    /\ cmd.device_id = "d1"
    /\ delivered["l2"] = <<[event_type |-> "alarm_hushed", device_id |-> "d1"]>>
    /\ cmd.res = "true"

Listing == cmd.op = "get_devices"

ReadPath == cmd.op \in {"get_devices", "get_device"}

-----------------------------------------------------------------------------
(* Properties of the request pipeline's transport failures, under Spec.     *)

(* C22: a request whose device call ended in a transport-level exception    *)
(* (a client error of the transport, a timeout) has failed with the         *)
(* connection error NestConnectionError.                                    *)
C22_TransportErrorsUniform ==
    \A t \in Tasks :
        (tk[t].op = "request" /\ tk[t].pc = "done"
            /\ (tk[t].r1 \in {"transport", "timeout"}
                \/ tk[t].r2 \in {"transport", "timeout"})) =>
            tk[t].res = "NestConnectionError"

-----------------------------------------------------------------------------
(* The StateManager as one caller sees it (state_manager.py): every call of *)
(* its interface is one step, run to its end, the save included.  Values    *)
(* are scalars or mutable objects (a list, a dict) the caller also holds;   *)
(* an object's content lives in the heap and the map holds the reference.   *)

MaxKvOps == 3

Objs == {"o1"}

Scalars == {"v1", "v2"}

KvValues == Scalars \cup Objs

Defaults == {None, "dflt"}

(* What a reader of a value sees: the content of an object, or the scalar.  *)
Val(h, v) == IF v \in Objs THEN h[v] ELSE v

(* json.dump(self._state): the map with every value written out. *)
View(m, h) == [k \in DOMAIN m |-> Val(h, m[k])]

(* dict.copy(): a new map holding the same values (the same references). *)
Copy(m) == m

(* The updater a caller passes to update(). *)
KvUpdater(x) == IF x = "v1" THEN "v2" ELSE "v1"

(* Where a save can fail: open(temp_file), json.dump, os.rename. *)
SaveFaultKinds == {"ok", "open", "dump", "rename"}

(* _save_state catches every exception of the write. *)
SaveSwallowsOpenOnly(f) == f = "open"

SaveSwallows(f) == TRUE

(* _save_state run to its end: skipped when not initialized; else the temp  *)
(* file is written and renamed, or the failure is logged and the temp file  *)
(* unlinked.                                                                *)
KvSave(d, m, f) ==
    IF ~initialized THEN [dk |-> d, err |-> "none"]
    ELSE CASE f = "ok" ->
                [dk |-> Renamed([d EXCEPT ![temp_file] = Complete(m)]), err |-> "none"]
           [] f = "open" ->
                [dk |-> Unlinked(d),
                 err |-> IF SaveSwallows(f) THEN "none" ELSE "OSError"]
           [] f = "dump" ->
                [dk |-> Unlinked([d EXCEPT ![temp_file] = Partial]),
                 err |-> IF SaveSwallows(f) THEN "none" ELSE "OSError"]
           [] OTHER ->
                [dk |-> Unlinked([d EXCEPT ![temp_file] = Complete(m)]),
                 err |-> IF SaveSwallows(f) THEN "none" ELSE "OSError"]

(* json.JSONDecodeError: the file is copied to <file>.corrupted.<ts>. *)
BacksUpNever(f) == FALSE

BacksUp(f) == f.kind = "partial"

NoKv ==
    [heap |-> [o \in Objs |-> "c0"], held |-> EmptyMap, has |-> FALSE,
     view0 |-> EmptyMap, dirty |-> FALSE, mut |-> "none",
     op |-> "none", key |-> "none", arg |-> None, ret |-> None,
     raised |-> "none", fault |-> "none", st0 |-> EmptyMap, dk0 |-> <<>>,
     init0 |-> FALSE, pop |-> "none", pkey |-> "none", parg |-> None,
     backups |-> {}, bfail |-> FALSE]

KvCall(op, key, arg) ==
    [kv EXCEPT !.op = op, !.key = key, !.arg = arg, !.ret = None,
               !.raised = "none", !.fault = "none",
               !.st0 = state, !.dk0 = disk, !.init0 = initialized,
               !.pop = kv.op, !.pkey = kv.key, !.parg = kv.arg, !.mut = "none"]

KvFrame ==
    /\ UNCHANGED <<lock, spc, sop, scur, written, interrupted, clean, base,
                   started, rets, overlap>>
    /\ UNCHANGED <<nvars, devices, listeners, delivered, cmd, mp, hs, au, su, hm, sy>>

KvReady == nops < MaxKvOps

(* A mutating call: the map changes under the lock, then the save runs.    *)
KvMutate(c, m, persist, f) ==
    LET S == IF persist THEN KvSave(disk, View(m, kv.heap), f)
             ELSE [dk |-> disk, err |-> "none"]
    IN /\ state' = m
       /\ disk' = S.dk
       /\ kv' = [c EXCEPT !.raised = S.err, !.dirty = TRUE,
                          !.fault = IF persist /\ initialized THEN f ELSE "none"]
       /\ nops' = nops + 1
       /\ UNCHANGED initialized
       /\ KvFrame

(* set(key, value, persist) *)
KvSet ==
    /\ KvReady
    /\ \E k \in Keys, v \in KvValues, p \in BOOLEAN, f \in SaveFaultKinds :
          KvMutate(KvCall("set", k, v), StateSet(state, k, v), p, f)

(* update(key, updater, default, persist) *)
KvUpdate ==
    /\ KvReady
    /\ \E k \in Keys, d \in Scalars, p \in BOOLEAN, f \in SaveFaultKinds :
          LET updated == KvUpdater(Val(kv.heap, Get(state, k, d)))
          IN KvMutate([KvCall("update", k, d) EXCEPT !.ret = updated],
                      StateSet(state, k, updated), p, f)

(* delete(key) *)
KvDelete ==
    /\ KvReady
    /\ \E k \in Keys, f \in SaveFaultKinds :
          KvMutate(KvCall("delete", k, None), StateDel(state, k), TRUE, f)

(* clear() *)
KvClear ==
    /\ KvReady
    /\ \E f \in SaveFaultKinds :
          KvMutate(KvCall("clear", "none", None), EmptyMap, TRUE, f)

(* get(key, default) *)
KvGet ==
    /\ KvReady
    /\ \E k \in Keys, d \in Defaults :
          kv' = [KvCall("get", k, d) EXCEPT !.ret = Get(state, k, d)]
    /\ nops' = nops + 1
    /\ UNCHANGED <<state, initialized, disk>>
    /\ KvFrame

(* get_all(): the caller keeps the map it is given. *)
KvGetAll ==
    /\ KvReady
    /\ kv' = [KvCall("get_all", "none", None) EXCEPT
                 !.held = Copy(state), !.has = TRUE,
                 !.view0 = View(state, kv.heap), !.dirty = FALSE]
    /\ nops' = nops + 1
    /\ UNCHANGED <<state, initialized, disk>>
    /\ KvFrame

(* The caller changes the map get_all() gave it: it assigns or deletes a    *)
(* key of the map, or it changes the object that is the value of a key.     *)
CallerMutates ==
    /\ kv.has
    /\ \/ \E k \in Keys, v \in Scalars :
             /\ Get(kv.held, k, None) # v
             /\ kv' = [kv EXCEPT !.held = StateSet(@, k, v), !.mut = "assign"]
       \/ \E k \in DOMAIN kv.held :
             kv' = [kv EXCEPT !.held = StateDel(@, k), !.mut = "delete"]
       \/ \E k \in DOMAIN kv.held :
             /\ kv.held[k] \in Objs
             /\ kv.heap[kv.held[k]] = "c0"
             /\ kv' = [kv EXCEPT !.heap[kv.held[k]] = "c1", !.mut = "nested"]
    /\ UNCHANGED <<state, initialized, disk, nops>>
    /\ KvFrame

(* initialize(): nothing when already initialized; else _load_state, whose  *)
(* every failure ends in the empty map; the copy of an unparsable file to   *)
(* its backup name may itself fail.                                         *)
KvInitialize ==
    /\ KvReady
    /\ \E bfail \in BOOLEAN :
          LET f == disk[state_file]
              c == [KvCall("initialize", "none", None) EXCEPT !.bfail = bfail]
          IN IF initialized
             THEN /\ kv' = c
                  /\ UNCHANGED state
             ELSE /\ state' = Loaded(f)
                  /\ kv' = [c EXCEPT !.dirty = TRUE,
                                     !.backups = IF BacksUp(f) /\ ~bfail
                                                 THEN @ \cup {[ts |-> now, content |-> f]}
                                                 ELSE @]
    /\ initialized' = TRUE
    /\ nops' = nops + 1
    /\ UNCHANGED disk
    /\ KvFrame

KvDocs == {[k \in {"counter"} |-> "v1"]}

KvInit ==
    /\ state = EmptyMap
    /\ initialized = FALSE
    /\ lock = NoTask
    /\ \E f \in {Absent, Partial} \cup {Complete(d) : d \in KvDocs} :
          disk = [x \in Files |-> IF x = state_file THEN f ELSE Absent]
    /\ written = {}
    /\ spc = [t \in STasks |-> "idle"]
    /\ sop = [t \in STasks |-> NoOp]
    /\ scur = [t \in STasks |-> 0]
    /\ nops = 0
    /\ interrupted = FALSE
    /\ clean = TRUE
    /\ base = EmptyMap
    /\ started = [k \in Keys |-> 0]
    /\ rets = [k \in Keys |-> {}]
    /\ overlap = FALSE
    /\ access_token = None
    /\ refresh_token = None
    /\ token_expires_at = 0
    /\ session = "none"
    /\ now = 0
    /\ tk = <<>>
    /\ ncalls = 0
    /\ fresh = <<>>
    /\ devices = <<>>
    /\ listeners = <<>>
    /\ delivered = <<>>
    /\ cmd = NoCmd
    /\ kv = NoKv
    /\ mp = <<>>
    /\ hs = <<>>
    /\ au = <<>>
    /\ su = <<>>
    /\ hm = <<>>
    /\ sy = <<>>

KvNext ==
    \/ KvSet
    \/ KvUpdate
    \/ KvDelete
    \/ KvClear
    \/ KvGet
    \/ KvGetAll
    \/ CallerMutates
    \/ KvInitialize

KvSpec == KvInit /\ [][KvNext]_vars

-----------------------------------------------------------------------------
(* Properties of the StateManager's interface, under KvSpec.                *)

(* C23: a get(key) that directly follows set(key, value) has returned that  *)
(* very value, and a get(key, default) of a key that is not in the map has  *)
(* returned the default, which is none when no default is given.            *)
C23_SetGetRoundTrip ==
    kv.op = "get" =>
        /\ (kv.pop = "set" /\ kv.pkey = kv.key) => kv.ret = kv.parg
        /\ kv.key \notin DOMAIN kv.st0 => kv.ret = kv.arg

C23_Witness ==
    /\ kv.op = "get"
    /\ kv.pop = "set"
    /\ kv.pkey = kv.key
    /\ kv.parg = "o1"
    /\ kv.ret = "o1"
    /\ kv.arg = "dflt"
    /\ ~initialized

(* C24 as stated: an initialize() of a store not yet initialized has raised *)
(* nothing and left the store initialized; with the file missing the map    *)
(* is empty; with a file of invalid JSON the map is empty, the file's       *)
(* content is in a backup '<file>.corrupted.<ts>' and the state file itself *)
(* no longer holds it (it was moved aside).                                 *)
C24_LoadMovesCorruptFileAside ==
    (kv.op = "initialize" /\ ~kv.init0 /\ ~kv.bfail) =>
        /\ initialized
        /\ kv.raised = "none"
        /\ kv.dk0[state_file].kind = "absent" => state = EmptyMap
        /\ kv.dk0[state_file].kind = "partial" =>
              /\ state = EmptyMap
              /\ [ts |-> now, content |-> Partial] \in kv.backups
              /\ disk[state_file] # Partial

(* C24, amended: an initialize() of a store not yet initialized has raised  *)
(* nothing and left the store initialized; with the file missing the map    *)
(* is empty; with a file of invalid JSON the map is empty, the file is      *)
(* still in place with its content, and a copy of it is in a backup         *)
(* '<file>.corrupted.<ts>' unless the copy failed.                          *)
C24_LoadSelfHealing ==
    (kv.op = "initialize" /\ ~kv.init0) =>
        /\ initialized
        /\ kv.raised = "none"
        /\ kv.dk0[state_file].kind = "absent" => state = EmptyMap
        /\ kv.dk0[state_file].kind = "partial" =>
              /\ state = EmptyMap
              /\ disk = kv.dk0
              /\ ~kv.bfail => [ts |-> now, content |-> Partial] \in kv.backups

C24_Witness ==
    /\ kv.op = "initialize"
    /\ ~kv.init0
    /\ ~kv.bfail
    /\ kv.dk0[state_file] = Partial
    /\ kv.st0 # EmptyMap
    /\ state = EmptyMap
    /\ initialized
    /\ kv.backups = {[ts |-> 0, content |-> Partial]}

(* C25: a mutating call whose save failed has returned normally, the map    *)
(* in memory holds the result of the call, and the state file is what it    *)
(* was before the call.                                                     *)
C25_FailedSaveSwallowed ==
    (kv.op \in {"set", "update", "delete", "clear"}
        /\ kv.fault \in {"open", "dump", "rename"}) =>
        /\ kv.raised = "none"
        /\ state = (CASE kv.op = "set"    -> StateSet(kv.st0, kv.key, kv.arg)
                      [] kv.op = "update" -> StateSet(kv.st0, kv.key, kv.ret)
                      [] kv.op = "delete" -> StateDel(kv.st0, kv.key)
                      [] OTHER            -> EmptyMap)
        /\ disk[state_file] = kv.dk0[state_file]

C25_Witness ==
    /\ kv.op = "set"
    /\ kv.fault = "rename"
    /\ kv.key = "counter"
    /\ kv.dk0[state_file] = Complete([k \in {"counter"} |-> "v1"])
    /\ disk[state_file] = Complete([k \in {"counter"} |-> "v1"])
    /\ state["counter"] = "v2"
    /\ kv.raised = "none"

(* C26: as long as the store has not been changed through its interface,    *)
(* the content of its map is what it was when get_all() returned, whatever  *)
(* the caller has done to the map it was given.                             *)
C26_GetAllDefensiveCopy ==
    (kv.has /\ ~kv.dirty) => View(state, kv.heap) = kv.view0

-----------------------------------------------------------------------------
(* The device state mapper (server.py, _map_device_state and its tables):   *)
(* pure functions, applied to inputs drawn from the sets below.             *)

(* alarmState strings of the API, "absent" for a missing trait or field.    *)
AlarmStrings ==
    {"absent", "", "ALARM_STATE_UNSPECIFIED", "ALARM_STATE_OFF",
     "ALARM_STATE_WARNING", "ALARM_STATE_CRITICAL", "ALARM_STATE_TEST",
     "UNKNOWN_STATE"}

BatteryStrings ==
    {"absent", "", "BATTERY_STATUS_UNSPECIFIED", "BATTERY_STATUS_NORMAL",
     "BATTERY_STATUS_LOW", "BATTERY_STATUS_CRITICAL", "BATTERY_STATUS_MISSING",
     "UNKNOWN_STATUS"}

(* _map_battery_state *)
MapBatteryStateOk(b) == "ok"

MapBatteryState(b) ==
    CASE b = "absent"                     -> "invalid"
      [] b = ""                           -> "invalid"
      [] b = "BATTERY_STATUS_UNSPECIFIED" -> "invalid"
      [] b = "BATTERY_STATUS_NORMAL"      -> "ok"
      [] b = "BATTERY_STATUS_LOW"         -> "replace_soon"
      [] b = "BATTERY_STATUS_CRITICAL"    -> "replace_now"
      [] b = "BATTERY_STATUS_MISSING"     -> "missing"
      [] OTHER                            -> "invalid"

(* Resource names as their path segments. *)
NameAbc == <<"enterprises", "p", "devices", "abc">>

NameFlat == <<"invalid-device">>

(* batteryLevel values of the API as numbers. *)
LevelOf(l) == CASE l = "85" -> 85 [] l = "150" -> 150 [] OTHER -> 0

(* ProtectDeviceState.battery_level: Optional[int], ge=0, le=100 *)
LevelAccepted(l) == l = "absent" \/ (LevelOf(l) >= 0 /\ LevelOf(l) <= 100)

(* device_data['name'].split('/')[-1] *)
FirstSegment(name) == name[1]

LastSegment(name) == name[Len(name)]

(* datetime.fromisoformat(t.replace('Z', '+00:00')) *)
ParseTime(t) ==
    IF t = "2023-01-01T12:00:00Z" THEN "2023-01-01T12:00:00+00:00" ELSE "none"

(* Raw device documents: the name may be missing, the traits map may be     *)
(* missing, and within the traits map every field may be missing; a field   *)
(* of a missing traits map is missing.                                      *)
RawDocs ==
    {d \in [hasname : BOOLEAN, name : {NameAbc, NameFlat},
            traits : {"absent", "present"},
            customName : {<<>>, <<"Hall">>},
            status : {"absent", "ONLINE", "OFFLINE"},
            smoke : {"absent", "ALARM_STATE_WARNING"},
            co : {"absent", "ALARM_STATE_CRITICAL"},
            heat : {"absent", "ALARM_STATE_TEST", "UNKNOWN_STATE"},
            batteryStatus : {"absent", "BATTERY_STATUS_NORMAL"},
            batteryLevel : {"absent", "85", "150"},
            lastEventTime : {"absent", "2023-01-01T12:00:00Z"}] :
        /\ ~d.hasname => d.name = NameFlat
        /\ d.traits = "absent" =>
              /\ d.customName = <<>>
              /\ d.status = "absent" /\ d.smoke = "absent" /\ d.co = "absent"
              /\ d.heat = "absent" /\ d.batteryStatus = "absent"
              /\ d.batteryLevel = "absent"}

NoRecord ==
    [device_id |-> "none", name |-> <<>>, online |-> FALSE,
     battery_health |-> "none", co_alarm_state |-> "none",
     smoke_alarm_state |-> "none", heat_alarm_state |-> "none",
     battery_level |-> "none", last_connection |-> "none"]

(* _map_device_state: the record, or the exception raised on the way:      *)
(* device_data['name'] needs the name, and ProtectDeviceState validates     *)
(* battery_level.                                                           *)
MapDevice(d) ==
    IF ~d.hasname THEN [raised |-> "KeyError", rec |-> NoRecord]
    ELSE IF ~LevelAccepted(d.batteryLevel)
    THEN [raised |-> "ValidationError", rec |-> NoRecord]
    ELSE [raised |-> "none",
          rec |-> [device_id |-> LastSegment(d.name),
                   name |-> IF d.customName = <<>> THEN d.name ELSE d.customName,
                   online |-> d.status = "ONLINE",
                   battery_health |-> MapBatteryState(d.batteryStatus),
                   co_alarm_state |-> MapAlarmState(d.smoke),
                   smoke_alarm_state |-> MapAlarmState(d.co),
                   heat_alarm_state |-> MapAlarmState(d.heat),
                   battery_level |-> IF d.batteryLevel = "absent" THEN "none"
                                     ELSE d.batteryLevel,
                   last_connection |-> IF d.lastEventTime = "absent" THEN "none"
                                       ELSE ParseTime(d.lastEventTime)]]

MapFrame ==
    UNCHANGED <<svars, nvars, devices, listeners, delivered, cmd, kv, hs,
                au, su, hm, sy>>

(* _map_device_state(device_data) *)
ApplyMapDevice ==
    /\ mp.pc = "raw" /\ mp.fn = "device"
    /\ mp' = [mp EXCEPT !.pc = "mapped", !.out = MapDevice(mp.in)]
    /\ MapFrame

(* _map_alarm_state(state) *)
ApplyMapAlarm ==
    /\ mp.pc = "raw" /\ mp.fn = "alarm"
    /\ mp' = [mp EXCEPT !.pc = "mapped", !.out = MapAlarmState(mp.in)]
    /\ MapFrame

(* _map_battery_state(status) *)
ApplyMapBattery ==
    /\ mp.pc = "raw" /\ mp.fn = "battery"
    /\ mp' = [mp EXCEPT !.pc = "mapped", !.out = MapBatteryState(mp.in)]
    /\ MapFrame

MapInit ==
    /\ state = EmptyMap
    /\ initialized = FALSE
    /\ lock = NoTask
    /\ disk = [x \in Files |-> Absent]
    /\ written = {}
    /\ spc = [t \in STasks |-> "idle"]
    /\ sop = [t \in STasks |-> NoOp]
    /\ scur = [t \in STasks |-> 0]
    /\ nops = 0
    /\ interrupted = FALSE
    /\ clean = TRUE
    /\ base = EmptyMap
    /\ started = [k \in Keys |-> 0]
    /\ rets = [k \in Keys |-> {}]
    /\ overlap = FALSE
    /\ access_token = None
    /\ refresh_token = None
    /\ token_expires_at = 0
    /\ session = "none"
    /\ now = 0
    /\ tk = <<>>
    /\ ncalls = 0
    /\ fresh = <<>>
    /\ devices = <<>>
    /\ listeners = <<>>
    /\ delivered = <<>>
    /\ cmd = NoCmd
    /\ kv = <<>>
    /\ hs = <<>>
    /\ au = <<>>
    /\ su = <<>>
    /\ hm = <<>>
    /\ sy = <<>>
    /\ \/ \E d \in RawDocs : mp = [pc |-> "raw", fn |-> "device", in |-> d, out |-> "none"]
       \/ \E a \in AlarmStrings : mp = [pc |-> "raw", fn |-> "alarm", in |-> a, out |-> "none"]
       \/ \E b \in BatteryStrings : mp = [pc |-> "raw", fn |-> "battery", in |-> b, out |-> "none"]

MapNext ==
    \/ ApplyMapDevice
    \/ ApplyMapAlarm
    \/ ApplyMapBattery

MapSpec == MapInit /\ [][MapNext]_vars

-----------------------------------------------------------------------------
(* Claims about the mapper, checked under MapSpec.                          *)

MappedDevice == mp.pc = "mapped" /\ mp.fn = "device"

(* C27: the device mapper never raises: for every raw device document,     *)
(* however partial (missing traits, missing or out-of-range fields), it     *)
(* returns a record.                                                        *)
C27_MapperNeverRaises ==
    MappedDevice => mp.out.raised = "none"

(* The traits map of the document is empty or absent. *)
NoTraits(d) ==
    /\ d.customName = <<>>
    /\ d.status = "absent" /\ d.smoke = "absent" /\ d.co = "absent"
    /\ d.heat = "absent" /\ d.batteryStatus = "absent"
    /\ d.batteryLevel = "absent"

(* C28: a document named '.../devices/abc' whose traits map is empty or    *)
(* absent maps to id 'abc', the full resource name as name, online false,   *)
(* the three alarm states 'off' and battery_health 'invalid'.               *)
C28_MinimalDocumentDefaults ==
    (MappedDevice /\ mp.in.hasname /\ mp.in.name = NameAbc /\ NoTraits(mp.in)) =>
        /\ mp.out.raised = "none"
        /\ mp.out.rec.device_id = "abc"
        /\ mp.out.rec.name = NameAbc
        /\ mp.out.rec.online = FALSE
        /\ mp.out.rec.co_alarm_state = "off"
        /\ mp.out.rec.smoke_alarm_state = "off"
        /\ mp.out.rec.heat_alarm_state = "off"
        /\ mp.out.rec.battery_health = "invalid"

C28_Witness ==
    /\ MappedDevice /\ mp.in.hasname /\ mp.in.name = NameAbc
    /\ mp.in.traits = "present" /\ NoTraits(mp.in)
    /\ mp.out.raised = "none" /\ mp.out.rec.device_id = "abc"

(* C29: alarm strings map UNSPECIFIED/OFF to 'off', WARNING to 'warning',  *)
(* CRITICAL to 'emergency', TEST to 'testing' and every other or missing    *)
(* string to 'off'; battery strings map NORMAL/LOW/CRITICAL/MISSING to      *)
(* 'ok'/'replace_soon'/'replace_now'/'missing' and every other or missing   *)
(* string to 'invalid', never to 'ok'.                                      *)
C29_StatusTables ==
    /\ (mp.pc = "mapped" /\ mp.fn = "alarm") =>
          /\ mp.in \in {"ALARM_STATE_UNSPECIFIED", "ALARM_STATE_OFF"} => mp.out = "off"
          /\ mp.in = "ALARM_STATE_WARNING" => mp.out = "warning"
          /\ mp.in = "ALARM_STATE_CRITICAL" => mp.out = "emergency"
          /\ mp.in = "ALARM_STATE_TEST" => mp.out = "testing"
          /\ mp.in \in {"absent", "", "UNKNOWN_STATE"} => mp.out = "off"
    /\ (mp.pc = "mapped" /\ mp.fn = "battery") =>
          /\ mp.in = "BATTERY_STATUS_NORMAL" => mp.out = "ok"
          /\ mp.in = "BATTERY_STATUS_LOW" => mp.out = "replace_soon"
          /\ mp.in = "BATTERY_STATUS_CRITICAL" => mp.out = "replace_now"
          /\ mp.in = "BATTERY_STATUS_MISSING" => mp.out = "missing"
          /\ mp.in \in {"absent", "", "UNKNOWN_STATUS"} => mp.out = "invalid"
          /\ mp.in # "BATTERY_STATUS_NORMAL" => mp.out # "ok"
    /\ (MappedDevice /\ mp.out.raised = "none") =>
          /\ mp.in.heat = "UNKNOWN_STATE" => mp.out.rec.heat_alarm_state = "off"
          /\ mp.in.heat = "ALARM_STATE_TEST" => mp.out.rec.heat_alarm_state = "testing"
          /\ mp.in.batteryStatus = "absent" => mp.out.rec.battery_health = "invalid"

C29_Witness ==
    /\ mp.pc = "mapped" /\ mp.fn = "battery"
    /\ mp.in = "UNKNOWN_STATUS" /\ mp.out = "invalid"

-----------------------------------------------------------------------------
(* The life cycle of the HTTP session (server.py: initialize, shutdown,     *)
(* _ensure_session, _refresh_access_token, _make_request): whole calls,     *)
(* with the answers of the network chosen at the call.  session is "none"   *)
(* (self._session is None), "open" or "closed" (a ClientSession object      *)
(* whose close() has run; the object is truthy).  hs.log lists the requests *)
(* issued: [op, on] with on the state of the session used, "own" for the    *)
(* session _make_request opens for itself.                                  *)

(* `if not self._session: self._session = aiohttp.ClientSession()` *)
SessionFor(se) == IF se = "none" THEN "open" ELSE se

(* _ensure_session: `if self._session is None or self._session.closed` *)
EnsureSessionOf(se) == IF se \in {"none", "closed"} THEN "open" ELSE se

(* shutdown: `if self._session and not self._session.closed: close()` *)
Closed(se) == IF se = "open" THEN "closed" ELSE se

(* Answers of the token endpoint used here: a grant, a 401 and a timeout. *)
SessAnswers ==
    {ans \in TokenAnswers :
        \/ ans.kind = "ok" /\ ans.ein = "3600" /\ ans.rt = "absent"
        \/ ans.kind = "http" /\ ans.status = 401
        \/ ans.kind = "timeout"}

SessApiAnswers == {"200", "401", "500"}

Issued(log, op, on) == Append(log, [op |-> op, on |-> on])

(* _refresh_access_token as one call.  post() on a closed session raises    *)
(* RuntimeError("Session is closed"), which `except Exception` turns into   *)
(* NestAuthError; the token fields stay.                                    *)
SessRefreshed(G, log, ans) ==
    IF NoRefreshToken(G.rt) THEN [g |-> G, log |-> log, err |-> "none"]
    ELSE LET G1 == [G EXCEPT !.se = SessionFor(G.se)]
         IN IF G1.se = "closed"
            THEN [g |-> G1, log |-> Issued(log, "refresh", "closed"),
                  err |-> "NestAuthError"]
            ELSE LET R == RefreshOutcome(ans, G1)
                 IN [g |-> R.g, log |-> Issued(log, "refresh", "open"),
                     err |-> R.err]

(* _make_request as one call: the session is created if there is none, the  *)
(* token is refreshed if absent or expired, the request goes out on a       *)
(* session of its own; after a 401 the token is refreshed, the access_token *)
(* property is read and the request is retried once.                        *)
SessRequested(G, log, ans1, api1, ans2, api2) ==
    LET G1  == [G EXCEPT !.se = SessionFor(G.se)]
        pre == IF Expired(G1.at, G1.exp, now) THEN SessRefreshed(G1, log, ans1)
               ELSE [g |-> G1, log |-> log, err |-> "none"]
        log1 == Issued(pre.log, "request", "own")
        r401 == SessRefreshed(pre.g, log1, ans2)
        G3  == IF NeedsRefresh(r401.g.at, r401.g.exp, now) THEN SaveAuthG(r401.g)
               ELSE r401.g
    IN IF pre.err # "none" THEN pre
       ELSE CASE api1 = "200" -> [g |-> pre.g, log |-> log1, err |-> "none"]
              [] api1 = "401" ->
                   IF r401.err # "none" THEN r401
                   ELSE IF G3.at = None
                   THEN [g |-> G3, log |-> r401.log, err |-> "NestAuthError"]
                   ELSE [g |-> G3, log |-> Issued(r401.log, "request", "own"),
                         err |-> IF api2 = "200" THEN "none"
                                 ELSE "NestConnectionError"]
              [] OTHER -> [g |-> pre.g, log |-> log1, err |-> "NestConnectionError"]

(* _get_devices_from_api: nothing without a refresh token; every exception  *)
(* of _make_request is caught.                                              *)
SessFetched(G, log, ans1, api1, ans2, api2) ==
    IF NoRefreshToken(G.rt) THEN [g |-> G, log |-> log, err |-> "none"]
    ELSE [SessRequested(G, log, ans1, api1, ans2, api2) EXCEPT !.err = "none"]

(* _load_auth_state: the token fields are read from the store's map. *)
SessLoaded(G) ==
    LET tr == TokensOf(G.st)
    IN IF DOMAIN G.st = {} THEN [G EXCEPT !.at = None, !.rt = None, !.exp = 0]
       ELSE [G EXCEPT !.at = tr[1], !.rt = tr[2], !.exp = tr[3]]

SessFrame ==
    /\ UNCHANGED <<initialized, lock, spc, sop, scur, nops, written, interrupted,
                   clean, base, started, rets, overlap>>
    /\ UNCHANGED <<now, tk, fresh, listeners, delivered, cmd, kv, mp, au, su, hm, sy>>

(* _load_auth_state: the device map saved under 'nest_devices' becomes      *)
(* self._devices when it is a non-empty dict; else self._devices stays.     *)
SessLoadedDevices(st, cur) ==
    LET dv == Get(st, "nest_devices", <<>>)
    IN IF DOMAIN st # {} /\ dv # <<>> THEN dv ELSE cur

(* _save_auth_state's fourth key: the device map, saved when not empty. *)
WithDevices(m, dv) == IF dv = <<>> THEN m ELSE StateSet(m, "nest_devices", dv)

(* The result R = [g, log, err] of operation op becomes the next state. *)
SessApply(op, R, started_, raised) ==
    /\ access_token' = R.g.at
    /\ refresh_token' = R.g.rt
    /\ token_expires_at' = R.g.exp
    /\ state' = R.g.st
    /\ disk' = R.g.dk
    /\ session' = R.g.se
    /\ hs' = [initialized |-> started_, log |-> R.log, op |-> op, raised |-> raised]
    /\ ncalls' = ncalls + 1
    /\ SessFrame

SessReady == ncalls < MaxCalls

(* _refresh_access_token() *)
SessRefresh ==
    /\ SessReady
    /\ \E ans \in SessAnswers :
          LET R == SessRefreshed(CurG, hs.log, ans)
          IN SessApply("refresh", R, hs.initialized, R.err)
    /\ UNCHANGED devices

(* _get_devices_from_api() *)
SessGetDevices ==
    /\ SessReady
    /\ \E ans1 \in SessAnswers, ans2 \in SessAnswers :
       \E api1 \in SessApiAnswers, api2 \in {"200", "500"} :
          LET R == SessFetched(CurG, hs.log, ans1, api1, ans2, api2)
          IN SessApply("get_devices", R, hs.initialized, "none")
    /\ UNCHANGED devices

(* _ensure_session() *)
SessEnsure ==
    /\ SessReady
    /\ SessApply("ensure_session",
                 [g |-> [CurG EXCEPT !.se = EnsureSessionOf(session)],
                  log |-> hs.log, err |-> "none"],
                 hs.initialized, "none")
    /\ UNCHANGED devices

(* shutdown(): the session is closed and _initialized reset; self._devices  *)
(* is not touched.                                                          *)
SessShutdown ==
    /\ SessReady
    /\ SessApply("shutdown",
                 [g |-> [CurG EXCEPT !.se = Closed(session)],
                  log |-> hs.log, err |-> "none"],
                 FALSE, "none")
    /\ UNCHANGED devices

(* initialize(): returns at once when initialized; else a new session, the  *)
(* saved tokens, the first device fetch (_initialize_devices catches every   *)
(* exception), then self._setup_periodic_tasks(), which the class does not  *)
(* define, and `time.time() - start_time` with start_time never assigned:   *)
(* `except Exception` runs shutdown() and raises.                           *)
SessInitialize ==
    /\ SessReady
    /\ devices' = IF hs.initialized THEN devices
                  ELSE SessLoadedDevices(state, devices)
    /\ IF hs.initialized
       THEN SessApply("initialize", [g |-> CurG, log |-> hs.log, err |-> "none"],
                      TRUE, "none")
       ELSE \E ans1 \in SessAnswers, ans2 \in SessAnswers :
            \E api1 \in SessApiAnswers, api2 \in {"200", "500"} :
               LET G1 == SessLoaded([CurG EXCEPT !.se = "open"])
                   R  == SessFetched(G1, hs.log, ans1, api1, ans2, api2)
               IN SessApply("initialize",
                            [R EXCEPT !.g.se = Closed(R.g.se)], FALSE, "Exception")

(* After construction: no session, no token and no device in memory,       *)
(* _initialized false; the store holds the tokens and the device map saved  *)
(* by an earlier run, if any.                                               *)
SessInit ==
    /\ initialized = TRUE
    /\ lock = NoTask
    /\ \E tr \in {<<None, None, 0>>, <<None, "R0", 0>>, <<"T1", "R0", 3600>>} :
       \E dv \in {<<>>, [d \in {"d1"} |-> Alarming]} :
          LET saved == WithDevices(TokenMap(tr[1], tr[2], tr[3]), dv)
              none  == tr[2] = None /\ dv = <<>>
          IN /\ state = IF none THEN EmptyMap ELSE saved
             /\ disk = [x \in Files |->
                          IF x = state_file /\ ~none THEN Complete(saved)
                          ELSE Absent]
    /\ written = {}
    /\ spc = [t \in STasks |-> "idle"]
    /\ sop = [t \in STasks |-> NoOp]
    /\ scur = [t \in STasks |-> 0]
    /\ nops = 0
    /\ interrupted = FALSE
    /\ clean = TRUE
    /\ base = EmptyMap
    /\ started = [k \in Keys |-> 0]
    /\ rets = [k \in Keys |-> {}]
    /\ overlap = FALSE
    /\ access_token = None
    /\ refresh_token = None
    /\ token_expires_at = 0
    /\ session = "none"
    /\ now = 0
    /\ tk = <<>>
    /\ ncalls = 0
    /\ fresh = <<>>
    /\ devices = <<>>
    /\ listeners = <<>>
    /\ delivered = <<>>
    /\ cmd = NoCmd
    /\ kv = <<>>
    /\ mp = <<>>
    /\ hs = [initialized |-> FALSE, log |-> <<>>, op |-> "none", raised |-> "none"]
    /\ au = <<>>
    /\ su = <<>>
    /\ hm = <<>>
    /\ sy = <<>>

SessNext ==
    \/ SessRefresh
    \/ SessGetDevices
    \/ SessEnsure
    \/ SessShutdown
    \/ SessInitialize

SessSpec == SessInit /\ [][SessNext]_vars

(* C30: no token refresh and no device request is ever issued on a closed  *)
(* session: a session found closed is replaced before it is used, also      *)
(* when the operation follows a shutdown().                                 *)
C30_NeverOnClosedSession ==
    \A i \in 1..Len(hs.log) : hs.log[i].on # "closed"

(* C40: each alarm field of the mapped record reflects its own trait:      *)
(* smoke_alarm_state the Smoke trait, co_alarm_state the CarbonMonoxide     *)
(* trait, heat_alarm_state the Heat trait.                                  *)
C40_AlarmFieldsOwnTrait ==
    (MappedDevice /\ mp.out.raised = "none") =>
        /\ mp.out.rec.smoke_alarm_state = MapAlarmState(mp.in.smoke)
        /\ mp.out.rec.co_alarm_state = MapAlarmState(mp.in.co)
        /\ mp.out.rec.heat_alarm_state = MapAlarmState(mp.in.heat)

(* C31: shutdown() closes the HTTP session, marks the server uninitialized *)
(* and discards the device records: after shutdown() the session is not     *)
(* open, the server is not initialized and the device cache is empty.       *)
C31_ShutdownDiscardsDevices ==
    hs.op = "shutdown" =>
        /\ session # "open"
        /\ ~hs.initialized
        /\ devices = <<>>

-----------------------------------------------------------------------------
(* Saving the authentication state and loading it into a fresh instance    *)
(* that shares the State Store (server.py: _save_auth_state,                *)
(* _load_auth_state).  The store starts empty or with what an earlier save  *)
(* left in it.                                                              *)

AuthTokens == {<<None, None, 0>>, <<"T1", "R0", 3600>>, <<"T2", "R1", 7200>>}

AuthDevices ==
    {<<>>, [d \in {"d1"} |-> Alarming], [d \in {"d2"} |-> AlarmOff]}

(* The store's map after a _save_auth_state of tokens tr and device map dv. *)
SavedAuth(m, tr, dv) ==
    WithDevices(StateSet(StateSet(StateSet(m, "nest_access_token", tr[1]),
                                  "nest_refresh_token", tr[2]),
                         "nest_token_expires_at", tr[3]), dv)

AuthFrame ==
    /\ UNCHANGED <<initialized, lock, spc, sop, scur, nops, written, interrupted,
                   clean, base, started, rets, overlap>>
    /\ UNCHANGED <<session, now, tk, ncalls, fresh>>
    /\ UNCHANGED <<listeners, delivered, cmd, kv, mp, hs, su, hm, sy>>

(* _save_auth_state(): three set() calls and a fourth for a non-empty       *)
(* device map, each persisted.                                              *)
SaveAuthState ==
    /\ au.pc = "set"
    /\ LET m == SavedAuth(state, <<access_token, refresh_token, token_expires_at>>,
                          devices)
       IN /\ state' = m
          /\ disk' = Saved(disk, m)
    /\ au' = [pc |-> "saved", at |-> access_token, rt |-> refresh_token,
              exp |-> token_expires_at, dv |-> devices,
              stale |-> Get(state, "nest_devices", <<>>) # <<>>]
    /\ UNCHANGED <<access_token, refresh_token, token_expires_at, devices>>
    /\ AuthFrame

(* NestProtectMCP(config): a new instance, its fields as __init__ sets them *)
NewInstance ==
    /\ au.pc = "saved"
    /\ access_token' = None
    /\ refresh_token' = None
    /\ token_expires_at' = 0
    /\ devices' = <<>>
    /\ au' = [au EXCEPT !.pc = "fresh"]
    /\ UNCHANGED <<state, disk>>
    /\ AuthFrame

(* _load_auth_state() of the new instance *)
LoadAuthState ==
    /\ au.pc = "fresh"
    /\ LET G == SessLoaded(CurG)
       IN /\ access_token' = G.at
          /\ refresh_token' = G.rt
          /\ token_expires_at' = G.exp
    /\ devices' = SessLoadedDevices(state, devices)
    /\ au' = [au EXCEPT !.pc = "loaded"]
    /\ UNCHANGED <<state, disk>>
    /\ AuthFrame

AuthInit ==
    /\ lock = NoTask
    /\ \E tr \in AuthTokens, dv \in AuthDevices :
          /\ access_token = tr[1]
          /\ refresh_token = tr[2]
          /\ token_expires_at = tr[3]
          /\ devices = dv
    /\ \E old \in AuthTokens, olddv \in AuthDevices, e \in BOOLEAN, i \in BOOLEAN :
          /\ initialized = i
          /\ state = IF e THEN EmptyMap ELSE SavedAuth(EmptyMap, old, olddv)
          /\ disk = [x \in Files |->
                       IF i /\ ~e /\ x = state_file
                       THEN Complete(SavedAuth(EmptyMap, old, olddv)) ELSE Absent]
    /\ written = {}
    /\ spc = [t \in STasks |-> "idle"]
    /\ sop = [t \in STasks |-> NoOp]
    /\ scur = [t \in STasks |-> 0]
    /\ nops = 0
    /\ interrupted = FALSE
    /\ clean = TRUE
    /\ base = EmptyMap
    /\ started = [k \in Keys |-> 0]
    /\ rets = [k \in Keys |-> {}]
    /\ overlap = FALSE
    /\ session = "none"
    /\ now = 0
    /\ tk = <<>>
    /\ ncalls = 0
    /\ fresh = <<>>
    /\ listeners = <<>>
    /\ delivered = <<>>
    /\ cmd = NoCmd
    /\ kv = <<>>
    /\ mp = <<>>
    /\ hs = <<>>
    /\ au = [pc |-> "set", at |-> None, rt |-> None, exp |-> 0, dv |-> <<>>,
             stale |-> FALSE]
    /\ su = <<>>
    /\ hm = <<>>
    /\ sy = <<>>

AuthNext ==
    \/ SaveAuthState
    \/ NewInstance
    \/ LoadAuthState

AuthSpec == AuthInit /\ [][AuthNext]_vars

(* C32: saving the authentication state and loading it into a fresh        *)
(* instance on the same store restores the same access token, refresh       *)
(* token, expiry and device map, for any tokens and any device map,         *)
(* the empty one included.                                                  *)
C32_SaveLoadRoundTrip ==
    au.pc = "loaded" =>
        /\ access_token = au.at
        /\ refresh_token = au.rt
        /\ token_expires_at = au.exp
        /\ devices = au.dv

-----------------------------------------------------------------------------
(* startup_event (server.py): the retry loop around initialize().  Each     *)
(* call of initialize() returns or raises one of the exceptions its except  *)
(* branches re-raise; the loop is followed attempt by attempt.              *)
(*   su.initialized  self._initialized                                      *)
(*   su.attempt      the loop variable                                      *)
(*   su.outcomes     what the calls of initialize() of this run did         *)
(*   su.retry_delay, su.slept   the delay and the time slept so far         *)
(*   su.result       "none", "True" or "NestProtectError"                   *)

max_retries == 3

retry_delay0 == 2

InitializeRaises == {"NestAuthError", "NestConnectionError", "Exception"}

(* `if attempt < max_retries - 1`: sleep and go on, else give up *)
RetryAlways(attempt) == TRUE

RetryAgain(attempt) == attempt < max_retries - 1

NoStartup ==
    [pc |-> "idle", initialized |-> FALSE, attempt |-> 0, outcomes |-> <<>>,
     retry_delay |-> retry_delay0, slept |-> 0, result |-> "none"]

StartFrame ==
    /\ UNCHANGED <<svars, access_token, refresh_token, token_expires_at, session,
                   now, tk, fresh>>
    /\ UNCHANGED <<devices, listeners, delivered, cmd, kv, mp, hs, au, hm, sy>>

(* startup_event() is called: max_retries = 3, retry_delay = 2, attempt 0 *)
StartupEvent ==
    /\ su.pc \in {"idle", "done"}
    /\ ncalls < MaxCalls
    /\ su' = [NoStartup EXCEPT !.pc = "try", !.initialized = su.initialized]
    /\ ncalls' = ncalls + 1
    /\ StartFrame

(* `await self.initialize()` returns: `return True`.  initialize() returns  *)
(* at once when the server is initialized.                                  *)
AttemptSucceeds ==
    /\ su.pc = "try"
    /\ su' = [su EXCEPT !.pc = "done", !.initialized = TRUE,
                        !.outcomes = Append(@, "ok"), !.result = "True"]
    /\ UNCHANGED ncalls
    /\ StartFrame

(* `await self.initialize()` raises (its except branches have run           *)
(* shutdown()): sleep, double the delay and try again, or raise             *)
(* NestProtectError after the last attempt.                                 *)
AttemptFails ==
    /\ su.pc = "try"
    /\ ~su.initialized
    /\ \E e \in InitializeRaises :
          su' = IF RetryAgain(su.attempt)
                THEN [su EXCEPT !.attempt = @ + 1, !.outcomes = Append(@, e),
                                !.slept = @ + su.retry_delay,
                                !.retry_delay = @ * 2]
                ELSE [su EXCEPT !.pc = "done", !.outcomes = Append(@, e),
                                !.result = "NestProtectError"]
    /\ UNCHANGED ncalls
    /\ StartFrame

StartInit ==
    /\ state = EmptyMap
    /\ initialized = FALSE
    /\ lock = NoTask
    /\ disk = [x \in Files |-> Absent]
    /\ written = {}
    /\ spc = [t \in STasks |-> "idle"]
    /\ sop = [t \in STasks |-> NoOp]
    /\ scur = [t \in STasks |-> 0]
    /\ nops = 0
    /\ interrupted = FALSE
    /\ clean = TRUE
    /\ base = EmptyMap
    /\ started = [k \in Keys |-> 0]
    /\ rets = [k \in Keys |-> {}]
    /\ overlap = FALSE
    /\ access_token = None
    /\ refresh_token = None
    /\ token_expires_at = 0
    /\ session = "none"
    /\ now = 0
    /\ tk = <<>>
    /\ ncalls = 0
    /\ fresh = <<>>
    /\ devices = <<>>
    /\ listeners = <<>>
    /\ delivered = <<>>
    /\ cmd = NoCmd
    /\ kv = <<>>
    /\ mp = <<>>
    /\ hs = <<>>
    /\ au = <<>>
    /\ su = NoStartup
    /\ hm = <<>>
    /\ sy = <<>>

StartNext ==
    \/ StartupEvent
    \/ AttemptSucceeds
    \/ AttemptFails

StartSpec == StartInit /\ [][StartNext]_vars

(* C33: startup_event calls initialize() at most three times, returns True *)
(* as soon as one attempt succeeds, without a further attempt, and raises   *)
(* NestProtectError after the third failed attempt.                         *)
C33_BoundedStartupRetry ==
    LET n == Len(su.outcomes)
    IN /\ n <= 3
       /\ \A i \in 1..n : su.outcomes[i] = "ok" => (i = n /\ su.result = "True")
       /\ su.result = "True" => (su.pc = "done" /\ n >= 1 /\ su.outcomes[n] = "ok")
       /\ su.result = "NestProtectError" =>
             (su.pc = "done" /\ n = 3 /\ \A i \in 1..n : su.outcomes[i] # "ok")
       /\ su.pc = "try" => (su.result = "none" /\ n < 3)
       /\ su.pc = "done" => su.result # "none"

C33_Witness ==
    /\ su.pc = "done"
    /\ su.result = "NestProtectError"
    /\ Len(su.outcomes) = 3
    /\ su.slept = 6

-----------------------------------------------------------------------------
(* handle_message (server.py): the dispatcher of MCP messages.              *)
(* A message has a method, params (None, {} or a dict with one key) and an  *)
(* id, which may be missing from the message object.                        *)

Methods == {"ping", "get_device", "hush_alarm", "unknown_method"}

ParamForms == {"None", "empty", "timestamp", "device_id", "params"}

MessageIds == {"id1", "id2", "missing"}

(* self._message_handlers, set by _register_message_handlers *)
RegisteredMethods ==
    {"ping", "get_device", "get_devices", "get_alarm_state", "hush_alarm",
     "run_test"}

(* `message.params or {}`: the keyword arguments of the call *)
Kwargs(p) ==
    CASE p = "timestamp" -> {"timestamp"}
      [] p = "device_id" -> {"device_id"}
      [] p = "params"    -> {"params"}
      [] OTHER           -> {}

(* The call of the handler with the params as keyword arguments binds:     *)
(* _handle_ping(self, params) needs the keyword params, the device handlers *)
(* need device_id; else TypeError.                                          *)
Binds(method, p) ==
    IF method = "ping" THEN Kwargs(p) = {"params"}
    ELSE Kwargs(p) = {"device_id"}

(* What the body of a handler that was called does: it returns, or raises   *)
(* one of the server's exceptions.  _handle_ping only returns.              *)
BodyOutcomes(method) ==
    IF method = "ping" THEN {"returns"}
    ELSE {"returns", "Exception", "NestConnectionError"}

(* The exception of the try block, "none" when it ran to its return:        *)
(* ValueError for an unknown method, TypeError for arguments that do not    *)
(* bind, the handler's exception, AttributeError for message.id.            *)
TryRaises(m, body) ==
    CASE m.method \notin RegisteredMethods -> "ValueError"
      [] ~Binds(m.method, m.params)        -> "TypeError"
      [] body # "returns"                  -> body
      [] m.id = "missing"                  -> "AttributeError"
      [] OTHER                             -> "none"

(* `except Exception as e` *)
CatchesValueErrorOnly(e) == e = "ValueError"

CatchesAll(e) == TRUE

(* getattr(message, 'id', None) *)
IdOf(m) == IF m.id = "missing" THEN None ELSE m.id

NoEnvelope == [keys |-> {}, jsonrpc |-> "none", id |-> None, code |-> 0]

(* The dict handle_message returns *)
Envelope(m, e) ==
    IF e = "none"
    THEN [keys |-> {"jsonrpc", "id", "result"}, jsonrpc |-> "2.0",
          id |-> m.id, code |-> 0]
    ELSE [keys |-> {"jsonrpc", "id", "error"}, jsonrpc |-> "2.0",
          id |-> IdOf(m), code |-> -32603]

NoMessage == [method |-> "none", params |-> "None", id |-> "missing"]

HandleFrame ==
    /\ UNCHANGED <<svars, access_token, refresh_token, token_expires_at, session,
                   now, tk, fresh>>
    /\ UNCHANGED <<devices, listeners, delivered, cmd, kv, mp, hs, au, su, sy>>

(* handle_message(message) *)
HandleMessage ==
    /\ ncalls < MaxCalls
    /\ \E method \in Methods, p \in ParamForms, id \in MessageIds :
       \E body \in BodyOutcomes(method) :
          LET m == [method |-> method, params |-> p, id |-> id]
              e == TryRaises(m, body)
          IN hm' = [msg |-> m, body |-> body, exc |-> e,
                    raised |-> IF CatchesAll(e) THEN "none" ELSE e,
                    env |-> IF CatchesAll(e) THEN Envelope(m, e) ELSE NoEnvelope,
                    failed_before |-> hm.failed_before \/ hm.exc # "none"]
    /\ ncalls' = ncalls + 1
    /\ HandleFrame

HandleInit ==
    /\ state = EmptyMap
    /\ initialized = FALSE
    /\ lock = NoTask
    /\ disk = [x \in Files |-> Absent]
    /\ written = {}
    /\ spc = [t \in STasks |-> "idle"]
    /\ sop = [t \in STasks |-> NoOp]
    /\ scur = [t \in STasks |-> 0]
    /\ nops = 0
    /\ interrupted = FALSE
    /\ clean = TRUE
    /\ base = EmptyMap
    /\ started = [k \in Keys |-> 0]
    /\ rets = [k \in Keys |-> {}]
    /\ overlap = FALSE
    /\ access_token = None
    /\ refresh_token = None
    /\ token_expires_at = 0
    /\ session = "none"
    /\ now = 0
    /\ tk = <<>>
    /\ ncalls = 0
    /\ fresh = <<>>
    /\ devices = <<>>
    /\ listeners = <<>>
    /\ delivered = <<>>
    /\ cmd = NoCmd
    /\ kv = <<>>
    /\ mp = <<>>
    /\ hs = <<>>
    /\ au = <<>>
    /\ su = <<>>
    /\ hm = [msg |-> NoMessage, body |-> "none", exc |-> "none", raised |-> "none",
             env |-> NoEnvelope, failed_before |-> FALSE]
    /\ sy = <<>>

HandleNext == HandleMessage

HandleSpec == HandleInit /\ [][HandleNext]_vars

(* C34: handle_message never raises: for every message it returns a        *)
(* JSON-RPC 2.0 envelope with the request's id and exactly one of 'result'  *)
(* and 'error'; an unknown method or an exception in a handler gives an     *)
(* error with code -32603, and a message handled after a failed one is      *)
(* answered like any other.                                                 *)
C34_HandleMessageEnvelope ==
    ncalls > 0 =>
        /\ hm.raised = "none"
        /\ hm.env.jsonrpc = "2.0"
        /\ hm.env.id = IdOf(hm.msg)
        /\ {"jsonrpc", "id"} \subseteq hm.env.keys
        /\ ("result" \in hm.env.keys) # ("error" \in hm.env.keys)
        /\ (hm.msg.method \notin RegisteredMethods \/ hm.body \notin {"returns"}) =>
              ("error" \in hm.env.keys /\ hm.env.code = -32603)
        /\ (/\ hm.msg.method \in RegisteredMethods
            /\ Binds(hm.msg.method, hm.msg.params)
            /\ hm.body = "returns" /\ hm.msg.id # "missing") =>
              "result" \in hm.env.keys

C34_Witness ==
    /\ ncalls > 1
    /\ hm.failed_before
    /\ hm.msg.method = "get_device" /\ hm.body = "Exception"
    /\ "error" \in hm.env.keys /\ hm.env.code = -32603 /\ hm.env.id = "id2"

-----------------------------------------------------------------------------
(* Further properties of the request pipeline and of access_token, under    *)
(* Spec.                                                                    *)

(* C35: a request whose first call is answered 401 makes exactly one call  *)
(* to the token endpoint between the first call and the retry, whatever     *)
(* expiry the granted token has.                                            *)
C35_OneRefreshOn401 ==
    \A t \in Tasks :
        (tk[t].op = "request" /\ tk[t].r1 = "401" /\ tk[t].calls = 2) =>
            tk[t].posts - tk[t].p1 = 1

(* C36: every device call carries a bearer token that is an access token   *)
(* (not none) and was outside the 300-second buffer when the call was       *)
(* issued.                                                                  *)
C36_BearerValidWhenSent ==
    \A t \in Tasks :
        /\ (tk[t].op = "request" /\ tk[t].calls >= 1) =>
              (tk[t].b1 # None /\ tk[t].v1)
        /\ (tk[t].op = "request" /\ tk[t].calls = 2) =>
              (tk[t].b2 # None /\ tk[t].v2)

(* C37: an access_token read calls _refresh_access_token exactly when the  *)
(* access token is absent or the time is at or past expires_at - 300, and   *)
(* then once; otherwise it returns the cached token without a refresh and   *)
(* without a call to the token endpoint.                                    *)
C37_RefreshExactlyWhenDue ==
    \A t \in Tasks :
        tk[t].op = "access_token" =>
            IF tk[t].at0 = None \/ tk[t].t0 >= tk[t].exp0 - 300
            THEN tk[t].refs = 1 /\ tk[t].posts <= 1
            ELSE /\ tk[t].refs = 0 /\ tk[t].posts = 0
                 /\ tk[t].pc = "done" /\ tk[t].res = "ok"
                 /\ tk[t].ret = tk[t].at0

C37_Witness ==
    \E t \in Tasks :
        /\ tk[t].op = "access_token" /\ tk[t].pc = "done"
        /\ tk[t].at0 # None /\ tk[t].t0 = tk[t].exp0 - 300
        /\ tk[t].refs = 1 /\ tk[t].posts = 1 /\ tk[t].res = "ok"

(* C38: a non-401 error status on the first call of a request ends the     *)
(* request with NestConnectionError after that one call: no call to the     *)
(* token endpoint follows it, no retry is made, and the token fields are    *)
(* those held when the call went out.                                       *)
C38_OtherStatusPropagates ==
    \A t \in Tasks :
        (tk[t].op = "request" /\ tk[t].r1 = "500") =>
            /\ tk[t].pc = "done"
            /\ tk[t].res = "NestConnectionError"
            /\ tk[t].calls = 1
            /\ tk[t].r2 = "none"
            /\ tk[t].posts = tk[t].p1
            /\ Mem = tk[t].m1

C38_Witness ==
    \E t \in Tasks :
        /\ tk[t].op = "request" /\ tk[t].r1 = "500" /\ tk[t].pc = "done"
        /\ tk[t].res = "NestConnectionError" /\ tk[t].calls = 1
        /\ tk[t].p1 = 1 /\ tk[t].posts = 1

-----------------------------------------------------------------------------
(* The state file against the in-memory map: the StateManager steps of      *)
(* StoreSpec, with a record of what happened since initialize():            *)
(*   sy.persisted  every mutation made since then had persist = True        *)
(*   sy.nofail     no save since then met a disk error                      *)
(*   sy.muts       the mutations made since then                            *)
(*   sy.conc       one of them was made while another call was in progress  *)
(*   sy.quiet      a set or update with persist = False has returned        *)

SyncFrame ==
    UNCHANGED <<nvars, devices, listeners, delivered, cmd, kv, mp, hs, au, su, hm>>

Fresh == [persisted |-> TRUE, nofail |-> TRUE, muts |-> 0, conc |-> FALSE, quiet |-> FALSE]

(* The state file holds the map: it is the complete document json.dump     *)
(* writes for it; before the first mutation a store that found no file has  *)
(* the empty map and still no file.                                         *)
FileHolds(m) ==
    \/ disk[state_file] = Complete(m)
    \/ disk[state_file] = Absent /\ m = EmptyMap /\ sy.muts = 0

SyncStep(t) ==
    /\ \/ StartOp(t)
       \/ AcquireMutate(t)
       \/ UpdateRead(t)
       \/ SaveEnter(t)
       \/ AcquireSave(t)
       \/ SaveOpen(t)
       \/ SaveDump(t)
       \/ SaveRename(t)
    /\ UNCHANGED sy
    /\ SyncFrame

SyncMutate(t) ==
    /\ MutateWrite(t)
    /\ sy' = [sy EXCEPT !.persisted = @ /\ sop[t].persist,
                        !.muts = @ + 1,
                        !.conc = @ \/ \E u \in STasks \ {t} : spc[u] # "idle",
                        !.quiet = @ \/ ~sop[t].persist]
    /\ SyncFrame

SyncSaveFail(t) ==
    /\ SaveFail(t)
    /\ sy' = [sy EXCEPT !.nofail = FALSE]
    /\ SyncFrame

SyncInitialize ==
    /\ StoreInitialize
    /\ sy' = Fresh
    /\ SyncFrame

SyncCrash ==
    /\ Crash
    /\ sy' = Fresh
    /\ SyncFrame

SyncInit ==
    /\ state = EmptyMap
    /\ initialized = FALSE
    /\ lock = NoTask
    /\ \E f \in {Absent} \cup {Complete(d) : d \in InitDocs} :
          /\ disk = [x \in Files |-> IF x = state_file THEN f ELSE Absent]
          /\ written = IF f.kind = "doc" THEN {f.doc} ELSE {}
    /\ spc = [t \in STasks |-> "idle"]
    /\ sop = [t \in STasks |-> NoOp]
    /\ scur = [t \in STasks |-> 0]
    /\ nops = 0
    /\ interrupted = FALSE
    /\ clean = TRUE
    /\ base = EmptyMap
    /\ started = [k \in Keys |-> 0]
    /\ rets = [k \in Keys |-> {}]
    /\ overlap = FALSE
    /\ access_token = None
    /\ refresh_token = None
    /\ token_expires_at = 0
    /\ session = "none"
    /\ now = 0
    /\ tk = <<>>
    /\ ncalls = 0
    /\ fresh = <<>>
    /\ devices = <<>>
    /\ listeners = <<>>
    /\ delivered = <<>>
    /\ cmd = NoCmd
    /\ kv = <<>>
    /\ mp = <<>>
    /\ hs = <<>>
    /\ au = <<>>
    /\ su = <<>>
    /\ hm = <<>>
    /\ sy = Fresh

SyncNext ==
    \/ \E t \in STasks : SyncStep(t)
    \/ \E t \in STasks : SyncMutate(t)
    \/ \E t \in STasks : SyncSaveFail(t)
    \/ SyncInitialize
    \/ SyncCrash

SyncSpec == SyncInit /\ [][SyncNext]_vars

(* C39: whenever the store is initialized, no call is in progress, every   *)
(* mutation since initialize() persisted and no save failed, the state file *)
(* holds the in-memory map, whatever the interleaving of the calls; and the *)
(* no step of a call with persist = False changes a file, and such a call   *)
(* returns straight after its write to the map.                             *)
C39_FileEqualsMemory ==
    /\ []((initialized /\ AllIdle /\ sy.persisted /\ sy.nofail) =>
             FileHolds(state))
    /\ [][\A t \in STasks :
            /\ ((~sop[t].persist \/ ~sop'[t].persist) /\ spc'[t] # spc[t]) =>
                   disk' = disk
            /\ (~sop[t].persist /\ spc[t] = "write" /\ spc'[t] # "write") =>
                   spc'[t] = "idle"]_vars

(* C39 witness: two or more persisted mutations, one of them made while     *)
(* another call was in progress, have all returned; the file is complete    *)
(* and holds the map, which has every key.                                  *)

C39_Witness ==
    /\ initialized /\ AllIdle /\ sy.persisted /\ sy.nofail
    /\ sy.muts >= 2 /\ sy.conc
    /\ DOMAIN state = Keys
    /\ disk[state_file] = Complete(state)

=============================================================================
